---- MODULE Spec2Model ----
(***************************************************************************)
(* MiniMessage parser and serializer of kyori-component-json               *)
(* (src/src/minimessage.rs, with the Component data model of               *)
(* src/src/lib.rs).                                                        *)
(*                                                                         *)
(* A Rust String is modelled as the sequence of its UTF-8 bytes, each byte *)
(* a one-character TLA+ string; the scan position is a byte index, as in   *)
(* the code.  One two-byte character (LeadByte, ContByte) stands for the   *)
(* non-ASCII characters.  Option<T> is the empty tuple (None) or a         *)
(* one-element tuple (Some).                                               *)
(***************************************************************************)
EXTENDS Integers, Sequences, FiniteSets, TLC

(* ------------------------------ bounds --------------------------------- *)
\* Longest input made of single characters.
MaxRawLen == 3
\* Longest input made of markup tokens (whole tags and text pieces).
MaxTokens == 3
\* Deepest chain of nested nodes handed to the serializer.
MaxDepth == 3
\* Most children of one node (or Array) handed to the serializer.
MaxWidth == 2

(* ------------------------------ strings -------------------------------- *)
\* The two bytes of a non-ASCII character (U+00E9 is C3 A9 in UTF-8).
LeadByte == "C3"
ContByte == "A9"
\* char::from(0), what current_char yields at the end of the input.
NulChar == "NUL"

Uppers == <<"A", "B", "C", "D", "E", "F", "G", "H", "I", "J", "K", "L", "M",
            "N", "O", "P", "Q", "R", "S", "T", "U", "V", "W", "X", "Y", "Z">>
Lowers == <<"a", "b", "c", "d", "e", "f", "g", "h", "i", "j", "k", "l", "m",
            "n", "o", "p", "q", "r", "s", "t", "u", "v", "w", "x", "y", "z">>
Digits == <<"0", "1", "2", "3", "4", "5", "6", "7", "8", "9">>

Range(f) == {f[i] : i \in DOMAIN f}

\* char::is_ascii_alphanumeric
is_ascii_alphanumeric(c) == c \in Range(Uppers) \cup Range(Lowers) \cup Range(Digits)

\* char::is_whitespace
is_whitespace(c) == c \in {" ", "\t", "\n"}

\* A tag name taken as it is written
to_lowercase_keeping_case(s) == s

\* str::to_lowercase, on the characters a tag name can hold
to_lowercase(s) ==
  [i \in 1..Len(s) |->
     IF s[i] \in Range(Uppers)
     THEN Lowers[CHOOSE k \in 1..Len(Uppers) : Uppers[k] = s[i]]
     ELSE s[i]]

\* str::is_char_boundary: byte index i of s starts a character (or ends s)
is_char_boundary(s, i) ==
  \/ i = 0
  \/ i = Len(s)
  \/ i < Len(s) /\ s[i + 1] # ContByte

\* The bytes of the character that starts at byte index pos.
CharBytes(s, pos) ==
  IF s[pos + 1] = LeadByte THEN SubSeq(s, pos + 1, pos + 2) ELSE <<s[pos + 1]>>

RECURSIVE Flatten(_)
Flatten(ss) == IF ss = <<>> THEN <<>> ELSE Head(ss) \o Flatten(Tail(ss))

Reverse(s) == [i \in 1..Len(s) |-> s[Len(s) + 1 - i]]

(* ----------------------------- data model ------------------------------ *)
None == <<>>
Some(x) == <<x>>
Unwrap(o) == o[1]

NamedColorTable ==
  <<
    [variant |-> "Black", name |-> <<"b", "l", "a", "c", "k">>, hex |-> <<"#", "0", "0", "0", "0", "0", "0">>],
    [variant |-> "DarkBlue", name |-> <<"d", "a", "r", "k", "_", "b", "l", "u", "e">>, hex |-> <<"#", "0", "0", "0", "0", "A", "A">>],
    [variant |-> "DarkGreen", name |-> <<"d", "a", "r", "k", "_", "g", "r", "e", "e", "n">>, hex |-> <<"#", "0", "0", "A", "A", "0", "0">>],
    [variant |-> "DarkAqua", name |-> <<"d", "a", "r", "k", "_", "a", "q", "u", "a">>, hex |-> <<"#", "0", "0", "A", "A", "A", "A">>],
    [variant |-> "DarkRed", name |-> <<"d", "a", "r", "k", "_", "r", "e", "d">>, hex |-> <<"#", "A", "A", "0", "0", "0", "0">>],
    [variant |-> "DarkPurple", name |-> <<"d", "a", "r", "k", "_", "p", "u", "r", "p", "l", "e">>, hex |-> <<"#", "A", "A", "0", "0", "A", "A">>],
    [variant |-> "Gold", name |-> <<"g", "o", "l", "d">>, hex |-> <<"#", "F", "F", "A", "A", "0", "0">>],
    [variant |-> "Gray", name |-> <<"g", "r", "a", "y">>, hex |-> <<"#", "A", "A", "A", "A", "A", "A">>],
    [variant |-> "DarkGray", name |-> <<"d", "a", "r", "k", "_", "g", "r", "a", "y">>, hex |-> <<"#", "5", "5", "5", "5", "5", "5">>],
    [variant |-> "Blue", name |-> <<"b", "l", "u", "e">>, hex |-> <<"#", "5", "5", "5", "5", "F", "F">>],
    [variant |-> "Green", name |-> <<"g", "r", "e", "e", "n">>, hex |-> <<"#", "5", "5", "F", "F", "5", "5">>],
    [variant |-> "Aqua", name |-> <<"a", "q", "u", "a">>, hex |-> <<"#", "5", "5", "F", "F", "F", "F">>],
    [variant |-> "Red", name |-> <<"r", "e", "d">>, hex |-> <<"#", "F", "F", "5", "5", "5", "5">>],
    [variant |-> "LightPurple", name |-> <<"l", "i", "g", "h", "t", "_", "p", "u", "r", "p", "l", "e">>, hex |-> <<"#", "F", "F", "5", "5", "F", "F">>],
    [variant |-> "Yellow", name |-> <<"y", "e", "l", "l", "o", "w">>, hex |-> <<"#", "F", "F", "F", "F", "5", "5">>],
    [variant |-> "White", name |-> <<"w", "h", "i", "t", "e">>, hex |-> <<"#", "F", "F", "F", "F", "F", "F">>]
  >>

\* Color::Named(NamedColor) and Color::Hex(String)
Named(v) == [kind |-> "Named", value |-> <<v>>]
Hex(h) == [kind |-> "Hex", value |-> h]

\* impl FromStr for NamedColor: Some(variant) or None
NamedColor_from_str(s) ==
  IF \E k \in DOMAIN NamedColorTable : NamedColorTable[k].name = s
  THEN Some(NamedColorTable[CHOOSE k \in DOMAIN NamedColorTable :
                              NamedColorTable[k].name = s].variant)
  ELSE None

\* impl fmt::Display for NamedColor
NamedColor_to_string(v) ==
  NamedColorTable[CHOOSE k \in DOMAIN NamedColorTable :
                    NamedColorTable[k].variant = v].name

DecorationFields == <<"bold", "italic", "underlined", "strikethrough", "obfuscated">>
StyleFields ==
  {"color", "font", "bold", "italic", "underlined", "strikethrough", "obfuscated",
   "shadow_color", "insertion", "click_event", "hover_event"}

\* Style::default()
DefaultStyle == [f \in StyleFields |-> None]

\* ComponentObject::default(): the payload fields used by this engine, the
\* children and the style attributes
ObjectFields == {"content_type", "text", "translate", "extra"} \cup StyleFields
DefaultObject == [f \in ObjectFields |-> None]

\* The three variants of Component
StringComp(s) == [type |-> "String", value |-> s]
ArrayComp(cs) == [type |-> "Array", value |-> cs]
ObjectComp(o) == [type |-> "Object", value |-> o]

\* Component::text
Component_text(t) == ObjectComp([DefaultObject EXCEPT !["text"] = Some(t)])

\* Component::map_object
map_object(comp, field, v) ==
  CASE comp.type = "String" ->
         ObjectComp([[DefaultObject EXCEPT !["content_type"] = Some("Text"),
                                           !["text"] = Some(comp.value)]
                       EXCEPT ![field] = v])
    [] comp.type = "Array" ->
         ObjectComp([[DefaultObject EXCEPT !["extra"] = Some(comp.value)]
                       EXCEPT ![field] = v])
    [] comp.type = "Object" -> ObjectComp([comp.value EXCEPT ![field] = v])

\* Component::color
Component_color(comp, color) == map_object(comp, "color", color)

\* Component::decorations, on an Object (what Component::text builds): every
\* key of the map sets its field
Component_decorations(comp, decorations) ==
  ObjectComp([f \in ObjectFields |->
                IF f \in DOMAIN decorations THEN decorations[f] ELSE comp.value[f]])

\* Component::append
Component_append(comp, child) ==
  CASE comp.type = "String" ->
         ObjectComp([DefaultObject EXCEPT !["content_type"] = Some("Text"),
                                          !["text"] = Some(comp.value),
                                          !["extra"] = Some(<<child>>)])
    [] comp.type = "Array" -> ArrayComp(Append(comp.value, child))
    [] comp.type = "Object" ->
         ObjectComp([comp.value EXCEPT !["extra"] =
                       IF @ = None THEN Some(<<child>>) ELSE Some(Append(@[1], child))])

\* ComponentObject::merge_style
merge_style(obj, fallback) ==
  [f \in ObjectFields |->
     IF f \in StyleFields /\ obj[f] = None THEN fallback[f] ELSE obj[f]]

\* Component::apply_fallback_style
RECURSIVE apply_fallback_style(_, _)
apply_fallback_style(comp, fallback) ==
  CASE comp.type = "String" ->
         ObjectComp(merge_style([DefaultObject EXCEPT
                                   !["content_type"] = Some("Text"),
                                   !["text"] = Some(comp.value)], fallback))
    [] comp.type = "Array" ->
         ArrayComp([i \in 1..Len(comp.value) |->
                      apply_fallback_style(comp.value[i], fallback)])
    [] comp.type = "Object" ->
         LET merged == merge_style(comp.value, fallback) IN
         ObjectComp([merged EXCEPT !["extra"] =
                       IF @ = None THEN None
                       ELSE Some([i \in 1..Len(@[1]) |->
                                    apply_fallback_style(@[1][i], fallback)])])

(* -------------------------------- lexer -------------------------------- *)
NoError == ""
\* The abnormal end of a call: slicing a str off a character boundary panics.
Panic == "panic"
\* A call that never returns.
Diverges == "diverges"

LexResult(pos, v, e) == [position |-> pos, value |-> v, error |-> e]

\* Parser::starts_with, where the slice input[position..] is valid
starts_with(s, pos, c) == pos < Len(s) /\ s[pos + 1] = c

\* Parser::current_char, where the slice is valid: the first byte stands for
\* the character
current_char(s, pos) == IF pos < Len(s) THEN s[pos + 1] ELSE NulChar

\* Parser::read_tag_name, the scanning loop: the end of the name, or -1 when
\* the loop panics
RECURSIVE tag_name_end(_, _)
tag_name_end(s, pos) ==
  IF pos < Len(s)
  THEN IF ~is_char_boundary(s, pos) THEN -1
       ELSE LET c == current_char(s, pos) IN
            IF ~is_ascii_alphanumeric(c) /\ c # "_" /\ c # "-"
            THEN pos
            ELSE tag_name_end(s, pos + 1)
  ELSE pos

\* Parser::read_tag_name, after the loop
tag_name_result(s, start, end) ==
  IF end = -1 THEN LexResult(start, <<>>, Panic)
  ELSE IF start = end THEN LexResult(end, <<>>, "Expected tag name")
  ELSE LexResult(end, to_lowercase(SubSeq(s, start + 1, end)), NoError)

\* Parser::read_tag_name
read_tag_name(s, start) == tag_name_result(s, start, tag_name_end(s, start))

\* Parser::read_quoted_string, the loop after the opening quote
RECURSIVE quoted_loop(_, _, _, _, _)
quoted_loop(s, pos, quote_char, escaped, result) ==
  IF pos < Len(s)
  THEN IF ~is_char_boundary(s, pos) THEN LexResult(pos, result, Panic)
       ELSE LET c == current_char(s, pos) IN
            IF escaped
            THEN quoted_loop(s, pos + 1, quote_char, FALSE, result \o CharBytes(s, pos))
            ELSE IF c = "\\"
            THEN quoted_loop(s, pos + 1, quote_char, TRUE, result)
            ELSE IF c = quote_char
            THEN LexResult(pos + 1, result, NoError)
            ELSE quoted_loop(s, pos + 1, quote_char, FALSE, result \o CharBytes(s, pos))
  ELSE LexResult(pos, result, "Unterminated quoted string")

\* Parser::read_quoted_string
read_quoted_string(s, pos) ==
  quoted_loop(s, pos + 1, current_char(s, pos), FALSE, <<>>)

\* Parser::read_unquoted_string, the scanning loop: the end of the run, or -1
\* when the loop panics
RECURSIVE unquoted_end(_, _)
unquoted_end(s, pos) ==
  IF pos < Len(s)
  THEN IF ~is_char_boundary(s, pos) THEN -1
       ELSE LET c == current_char(s, pos) IN
            IF c = ":" \/ c = ">" \/ c = "/" \/ is_whitespace(c)
            THEN pos
            ELSE unquoted_end(s, pos + 1)
  ELSE pos

\* Parser::read_unquoted_string, after the loop
unquoted_result(s, start, end) ==
  IF end = -1 THEN LexResult(start, <<>>, Panic)
  ELSE IF start = end THEN LexResult(end, <<>>, "Expected argument")
  ELSE LexResult(end, SubSeq(s, start + 1, end), NoError)

\* Parser::read_unquoted_string
read_unquoted_string(s, start) == unquoted_result(s, start, unquoted_end(s, start))

\* Parser::read_argument
read_argument(s, pos) ==
  IF starts_with(s, pos, "'") \/ starts_with(s, pos, "\"")
  THEN read_quoted_string(s, pos)
  ELSE read_unquoted_string(s, pos)

\* Parser::skip_whitespace: the position after the whitespace, or -1 when the
\* loop panics
RECURSIVE skip_whitespace(_, _)
skip_whitespace(s, pos) ==
  IF pos < Len(s)
  THEN IF ~is_char_boundary(s, pos) THEN -1
       ELSE IF ~is_whitespace(current_char(s, pos)) THEN pos
       ELSE skip_whitespace(s, pos + 1)
  ELSE pos

\* Parser::expect
expect(s, pos, c) ==
  IF pos < Len(s) /\ ~is_char_boundary(s, pos) THEN LexResult(pos, <<>>, Panic)
  ELSE IF pos < Len(s) /\ current_char(s, pos) = c
  THEN LexResult(pos + 1, <<>>, NoError)
  ELSE LexResult(pos, <<>>, "Expected '" \o c \o "'")

\* Parser::parse_tag, the argument loop of an opening tag: the arguments read
\* and the position after them
RECURSIVE read_arguments(_, _, _)

\* the loop body after read_argument
arguments_push(s, args, arg) ==
  IF arg.error # NoError THEN LexResult(arg.position, args, arg.error)
  ELSE read_arguments(s, arg.position, Append(args, arg.value))

\* the loop body after skip_whitespace
arguments_next(s, pos, args, p2) ==
  IF p2 = -1 THEN LexResult(pos, args, Panic)
  ELSE IF starts_with(s, p2, ">") \/ starts_with(s, p2, "/")
  THEN LexResult(p2, args, NoError)
  ELSE arguments_push(s, args, read_argument(s, p2))

read_arguments(s, pos, args) ==
  IF ~is_char_boundary(s, pos) THEN LexResult(pos, args, Panic)
  ELSE IF starts_with(s, pos, ">") \/ starts_with(s, pos, "/")
  THEN LexResult(pos, args, NoError)
  ELSE arguments_next(s, pos, args, skip_whitespace(s, pos))

(* -------------------------------- parser ------------------------------- *)
\* MiniMessageConfig
Config(strict, parse_legacy_colors) ==
  [strict |-> strict, parse_legacy_colors |-> parse_legacy_colors]

\* Parser::new.  The record holds the fields of struct Parser; error is the
\* Err (or panic) the running call has raised, NoError while there is none.
Parser_new(input, config) ==
  [input |-> input, position |-> 0, config |-> config,
   style_stack |-> <<DefaultStyle>>, component_parts |-> <<>>, error |-> NoError]

Fail(p, e) == [p EXCEPT !.error = e]

\* Parser::current_style
current_style(p) == p.style_stack[Len(p.style_stack)]

\* Parser::push_style with the modifier |s| s.field = value
push_style(p, field, value) ==
  [p EXCEPT !.style_stack = Append(@, [current_style(p) EXCEPT ![field] = value])]

\* A pop_style that wants a frame to spare
pop_style_off_by_one(p) ==
  IF Len(p.style_stack) > 2
  THEN [p EXCEPT !.style_stack = SubSeq(@, 1, Len(@) - 1)]
  ELSE Fail(p, "Unbalanced closing tag")

\* Parser::pop_style
pop_style(p) ==
  IF Len(p.style_stack) > 1
  THEN [p EXCEPT !.style_stack = SubSeq(@, 1, Len(@) - 1)]
  ELSE Fail(p, "Unbalanced closing tag")

\* A reset that keeps the top frame instead of the bottom one
reset_style_keeping_top(p) == [p EXCEPT !.style_stack = <<@[Len(@)]>>]

\* A reset that pops the top frame only
reset_style_popping_one(p) ==
  [p EXCEPT !.style_stack = SubSeq(@, 1, IF Len(@) > 1 THEN Len(@) - 1 ELSE 1)]

\* Parser::reset_style
reset_style(p) == [p EXCEPT !.style_stack = SubSeq(@, 1, 1)]

\* Parser::collect_decorations: the map holds the decorations the style sets
collect_decorations(p) ==
  LET style == current_style(p) IN
  [d \in {f \in Range(DecorationFields) : style[f] # None} |-> style[d]]

\* The component parse_text and the self-closing arm build: the text with the
\* colour and the decorations of the current style
StyledText(p, text) ==
  Component_decorations(
    Component_color(Component_text(text), current_style(p).color),
    collect_decorations(p))

\* A part that becomes a child of the part before it
push_part_as_child(p, comp) ==
  IF p.component_parts = <<>> THEN [p EXCEPT !.component_parts = <<comp>>]
  ELSE [p EXCEPT !.component_parts[Len(p.component_parts)] = Component_append(@, comp)]

\* self.component_parts.push(comp)
push_part(p, comp) == [p EXCEPT !.component_parts = Append(@, comp)]

\* parse_color
parse_color(input) ==
  IF NamedColor_from_str(input) # None
  THEN Some(Named(Unwrap(NamedColor_from_str(input))))
  ELSE IF Len(input) > 0 /\ input[1] = "#" /\ Len(input) = 7
  THEN Some(Hex(input))
  ELSE None

\* An explicit list that misses its last name
ExplicitCloseNames_without_insertion ==
  {<<"b", "o", "l", "d">>, <<"b">>, <<"i", "t", "a", "l", "i", "c">>, <<"i">>, <<"e", "m">>, <<"u", "n", "d", "e", "r", "l", "i", "n", "e", "d">>, <<"u">>, <<"s", "t", "r", "i", "k", "e", "t", "h", "r", "o", "u", "g", "h">>, <<"s", "t">>,
   <<"o", "b", "f", "u", "s", "c", "a", "t", "e", "d">>, <<"o", "b", "f">>, <<"c", "o", "l", "o", "r">>, <<"c", "o", "l", "o", "u", "r">>, <<"c">>, <<"c", "l", "i", "c", "k">>, <<"h", "o", "v", "e", "r">>, <<"i", "n", "s", "e", "r", "t">>}

\* The names handle_close_tag matches explicitly
ExplicitCloseNames ==
  {<<"b", "o", "l", "d">>, <<"b">>, <<"i", "t", "a", "l", "i", "c">>, <<"i">>, <<"e", "m">>, <<"u", "n", "d", "e", "r", "l", "i", "n", "e", "d">>, <<"u">>, <<"s", "t", "r", "i", "k", "e", "t", "h", "r", "o", "u", "g", "h">>, <<"s", "t">>,
   <<"o", "b", "f", "u", "s", "c", "a", "t", "e", "d">>, <<"o", "b", "f">>, <<"c", "o", "l", "o", "r">>, <<"c", "o", "l", "o", "u", "r">>, <<"c">>, <<"c", "l", "i", "c", "k">>, <<"h", "o", "v", "e", "r">>, <<"i", "n", "s", "e", "r", "t">>,
   <<"i", "n", "s", "e", "r", "t", "i", "o", "n">>}

\* An unknown closing tag that pops nothing
close_unknown_never_popping(p) == p

\* Parser::handle_close_tag for an unknown name
close_unknown(p) ==
  IF Len(p.style_stack) > 1
  THEN [p EXCEPT !.style_stack = SubSeq(@, 1, Len(@) - 1)]
  ELSE p

\* Parser::handle_close_tag
handle_close_tag(p, tag) ==
  IF tag \in ExplicitCloseNames THEN pop_style(p) ELSE close_unknown(p)

\* The text an unknown opening tag is turned into
RECURSIVE tag_text_args(_)
tag_text_args(args) ==
  IF args = <<>> THEN <<>> ELSE <<":">> \o Head(args) \o tag_text_args(Tail(args))

tag_text(tag, args, self_closing) ==
  <<"<">> \o tag \o tag_text_args(args)
    \o (IF self_closing THEN <<"/">> ELSE <<>>) \o <<">">>

\* Parser::parse of a fresh parser: [error, value], value the component
RECURSIVE parse(_, _)

\* Parser::handle_open_tag, the click arm
open_click(p, args) ==
  LET action == args[1]
      value == args[2]
  IN  CASE action = <<"r", "u", "n", "_", "c", "o", "m", "m", "a", "n", "d">> ->
             push_style(p, "click_event", Some([action |-> "RunCommand", value |-> value]))
        [] action = <<"s", "u", "g", "g", "e", "s", "t", "_", "c", "o", "m", "m", "a", "n", "d">> ->
             push_style(p, "click_event", Some([action |-> "SuggestCommand", value |-> value]))
        [] action = <<"o", "p", "e", "n", "_", "u", "r", "l">> ->
             push_style(p, "click_event", Some([action |-> "OpenUrl", value |-> value]))
        [] action = <<"c", "o", "p", "y", "_", "t", "o", "_", "c", "l", "i", "p", "b", "o", "a", "r", "d">> ->
             push_style(p, "click_event", Some([action |-> "CopyToClipboard", value |-> value]))
        [] OTHER -> p

\* A hover arm that drops the tag when its nested markup does not parse
hover_nested_ignoring_error(p, nested) ==
  IF nested.error # NoError THEN p
  ELSE push_style(p, "hover_event",
                  Some([action |-> "ShowText", value |-> Unwrap(nested.value)]))

\* A hover arm whose nested result inherits the outer ambient style
hover_nested_inheriting_style(p, nested) ==
  IF nested.error # NoError THEN Fail(p, nested.error)
  ELSE push_style(p, "hover_event",
                  Some([action |-> "ShowText",
                        value |-> apply_fallback_style(Unwrap(nested.value),
                                                       current_style(p))]))

\* Parser::handle_open_tag, the hover arm
hover_nested(p, nested) ==
  IF nested.error # NoError THEN Fail(p, nested.error)
  ELSE push_style(p, "hover_event",
                  Some([action |-> "ShowText", value |-> Unwrap(nested.value)]))

open_hover(p, args) ==
  IF args[1] = <<"s", "h", "o", "w", "_", "t", "e", "x", "t">> /\ Len(args) >= 2
  THEN hover_nested(p, parse(args[2], p.config))
  ELSE p

\* Parser::handle_open_tag
handle_open_tag(p, tag, args, self_closing) ==
  CASE NamedColor_from_str(tag) # None ->
         push_style(p, "color", Some(Named(Unwrap(NamedColor_from_str(tag)))))
    [] tag \in {<<"c", "o", "l", "o", "r">>, <<"c", "o", "l", "o", "u", "r">>, <<"c">>} /\ args # <<>> ->
         IF parse_color(args[1]) # None
         THEN push_style(p, "color", parse_color(args[1]))
         ELSE p
    [] tag \in {<<"b", "o", "l", "d">>, <<"b">>} -> push_style(p, "bold", Some(TRUE))
    [] tag \in {<<"i", "t", "a", "l", "i", "c">>, <<"i">>, <<"e", "m">>} -> push_style(p, "italic", Some(TRUE))
    [] tag \in {<<"u", "n", "d", "e", "r", "l", "i", "n", "e", "d">>, <<"u">>} -> push_style(p, "underlined", Some(TRUE))
    [] tag \in {<<"s", "t", "r", "i", "k", "e", "t", "h", "r", "o", "u", "g", "h">>, <<"s", "t">>} -> push_style(p, "strikethrough", Some(TRUE))
    [] tag \in {<<"o", "b", "f", "u", "s", "c", "a", "t", "e", "d">>, <<"o", "b", "f">>} -> push_style(p, "obfuscated", Some(TRUE))
    [] tag = <<"r", "e", "s", "e", "t">> -> reset_style(p)
    [] tag = <<"c", "l", "i", "c", "k">> /\ Len(args) >= 2 -> open_click(p, args)
    [] tag = <<"h", "o", "v", "e", "r">> /\ args # <<>> -> open_hover(p, args)
    [] tag \in {<<"n", "e", "w", "l", "i", "n", "e">>, <<"b", "r">>} -> push_part(p, Component_text(<<"\n">>))
    [] tag \in {<<"i", "n", "s", "e", "r", "t">>, <<"i", "n", "s", "e", "r", "t", "i", "o", "n">>} /\ args # <<>> ->
         push_style(p, "insertion", Some(args[1]))
    [] OTHER ->
         IF self_closing
         THEN push_part(p, StyledText(p, <<>>))
         ELSE push_part(p, apply_fallback_style(
                             Component_text(tag_text(tag, args, self_closing)),
                             current_style(p)))

\* Parser::parse_tag, the closing-tag branch after expect('>')
close_end(closed, gt) ==
  IF gt.error # NoError THEN Fail(closed, gt.error)
  ELSE [closed EXCEPT !.position = gt.position]

\* Parser::parse_tag, the closing-tag branch after handle_close_tag
close_expect(closed) ==
  IF closed.error # NoError THEN closed
  ELSE close_end(closed, expect(closed.input, closed.position, ">"))

\* Parser::parse_tag, the closing-tag branch after read_tag_name
close_named(p, name) ==
  IF name.error # NoError THEN Fail([p EXCEPT !.position = name.position], name.error)
  ELSE close_expect(handle_close_tag([p EXCEPT !.position = name.position], name.value))

\* Parser::parse_tag, the closing-tag branch; pos is the position after "</"
parse_close_tag(p, pos) == close_named(p, read_tag_name(p.input, pos))

\* Parser::parse_tag, the opening-tag branch after expect('>')
open_end(p, tag, args, self_closing, gt) ==
  IF gt.error # NoError THEN Fail([p EXCEPT !.position = gt.position], gt.error)
  ELSE handle_open_tag([p EXCEPT !.position = gt.position], tag, args, self_closing)

\* Parser::parse_tag, the opening-tag branch after the argument loop
open_with_args(p, tag, args) ==
  IF args.error # NoError THEN Fail([p EXCEPT !.position = args.position], args.error)
  ELSE IF starts_with(p.input, args.position, "/")
  THEN open_end(p, tag, args.value, TRUE, expect(p.input, args.position + 1, ">"))
  ELSE open_end(p, tag, args.value, FALSE, expect(p.input, args.position, ">"))

\* Parser::parse_tag, the opening-tag branch after read_tag_name
open_named(p, name) ==
  IF name.error # NoError THEN Fail([p EXCEPT !.position = name.position], name.error)
  ELSE open_with_args(p, name.value, read_arguments(p.input, name.position, <<>>))

\* Parser::parse_tag, the opening-tag branch; pos is the position after "<"
parse_open_tag(p, pos) == open_named(p, read_tag_name(p.input, pos))

\* Parser::parse_tag
parse_tag(p) ==
  IF ~is_char_boundary(p.input, p.position + 1) THEN Fail(p, Panic)
  ELSE IF starts_with(p.input, p.position + 1, "/")
  THEN parse_close_tag(p, p.position + 2)
  ELSE parse_open_tag(p, p.position + 1)

\* Parser::parse_text, the scanning loop: the end of the literal run, or -1
\* when the loop panics
RECURSIVE text_end(_, _, _)
text_end(s, pos, legacy) ==
  IF pos < Len(s)
  THEN IF ~is_char_boundary(s, pos) THEN -1
       ELSE IF starts_with(s, pos, "<") \/ (legacy /\ starts_with(s, pos, "&"))
       THEN pos
       ELSE text_end(s, pos + 1, legacy)
  ELSE pos

\* Parser::parse_text, after the loop
text_run(p, start, end) ==
  IF end = -1 THEN Fail(p, Panic)
  ELSE IF start < end
  THEN push_part([p EXCEPT !.position = end],
                 StyledText(p, SubSeq(p.input, start + 1, end)))
  ELSE p

\* Parser::parse_text
parse_text(p) ==
  text_run(p, p.position, text_end(p.input, p.position, p.config.parse_legacy_colors))

\* Parser::parse, one iteration of the main loop
parse_iteration(p) ==
  IF ~is_char_boundary(p.input, p.position) THEN Fail(p, Panic)
  ELSE IF starts_with(p.input, p.position, "<") THEN parse_tag(p)
  ELSE parse_text(p)

\* A result that is wrapped whatever the number of parts
parse_result_always_array(p) == ArrayComp(p.component_parts)

\* Parser::parse, the value returned after the loop
parse_result(p) ==
  IF Len(p.component_parts) = 1 THEN p.component_parts[1]
  ELSE ArrayComp(p.component_parts)

\* Parser::parse, the main loop.  An iteration that raises nothing and leaves
\* the parser as it was repeats forever: the call never returns.
RECURSIVE parse_loop(_)

parse_continue(p, q) == IF q = p THEN Fail(p, Diverges) ELSE parse_loop(q)

parse_loop(p) ==
  IF p.error # NoError THEN p
  ELSE IF p.position < Len(p.input) THEN parse_continue(p, parse_iteration(p))
  ELSE p

\* A return that rejects an input ending inside an open tag
parse_return_requiring_closed(p) ==
  IF p.error # NoError THEN [error |-> p.error, value |-> None]
  ELSE IF Len(p.style_stack) > 1 THEN [error |-> "Unclosed tag", value |-> None]
  ELSE [error |-> NoError, value |-> Some(parse_result(p))]

\* Parser::parse: what the call returns
parse_return(p) ==
  IF p.error # NoError THEN [error |-> p.error, value |-> None]
  ELSE [error |-> NoError, value |-> Some(parse_result(p))]

parse(input, config) == parse_return(parse_loop(Parser_new(input, config)))

(* ------------------------------ serializer ----------------------------- *)
\* get_named_color
get_named_color(color) ==
  IF color.kind = "Named" THEN Some(color.value[1])
  ELSE IF \E k \in DOMAIN NamedColorTable : NamedColorTable[k].hex = color.value
  THEN Some(NamedColorTable[CHOOSE k \in DOMAIN NamedColorTable :
                              NamedColorTable[k].hex = color.value].variant)
  ELSE None

\* An escape that lets ">" through
escape_char_keeping_gt(c) ==
  CASE c = "<" -> <<"&", "l", "t", ";">>
    [] c = "&" -> <<"&", "a", "m", "p", ";">>
    [] OTHER -> <<c>>

\* Serializer::serialize_text, one character
escape_char(c) ==
  CASE c = "<" -> <<"&", "l", "t", ";">>
    [] c = ">" -> <<"&", "g", "t", ";">>
    [] c = "&" -> <<"&", "a", "m", "p", ";">>
    [] OTHER -> <<c>>

\* Serializer::serialize_text: what is appended to the output
RECURSIVE escape_text(_)
escape_text(text) ==
  IF text = <<>> THEN <<>> ELSE escape_char(Head(text)) \o escape_text(Tail(text))

\* Serializer::serialize_object, the colour entry of style_changes
color_change(obj, prev_style) ==
  IF obj.color # None /\ obj.color # prev_style.color
  THEN LET color == Unwrap(obj.color) IN
       IF get_named_color(color) # None
       THEN <<NamedColor_to_string(Unwrap(get_named_color(color)))>>
       ELSE IF color.kind = "Hex" THEN <<<<"c", "o", "l", "o", "r", ":">> \o color.value>>
       ELSE <<>>
  ELSE <<>>

\* An entry for every decoration the node sets to another value, false included
decoration_change_whenever_set(obj, prev_style, field, name) ==
  IF obj[field] # prev_style[field] /\ obj[field] # None THEN <<name>> ELSE <<>>

\* Serializer::serialize_object, the entry of style_changes of one decoration
decoration_change(obj, prev_style, field, name) ==
  IF obj[field] # prev_style[field] /\ obj[field] = Some(TRUE) THEN <<name>> ELSE <<>>

\* Serializer::serialize_object, the decoration entries of style_changes
decoration_changes(obj, prev_style) ==
  decoration_change(obj, prev_style, "bold", <<"b", "o", "l", "d">>)
    \o decoration_change(obj, prev_style, "italic", <<"i", "t", "a", "l", "i", "c">>)
    \o decoration_change(obj, prev_style, "underlined", <<"u", "n", "d", "e", "r", "l", "i", "n", "e", "d">>)
    \o decoration_change(obj, prev_style, "strikethrough", <<"s", "t", "r", "i", "k", "e", "t", "h", "r", "o", "u", "g", "h">>)
    \o decoration_change(obj, prev_style, "obfuscated", <<"o", "b", "f", "u", "s", "c", "a", "t", "e", "d">>)

\* Style changes that also announce an insertion
style_changes_with_insertion(obj, prev_style) ==
  color_change(obj, prev_style) \o decoration_changes(obj, prev_style)
    \o (IF obj.insertion # None /\ obj.insertion # prev_style.insertion
        THEN <<<<"i", "n", "s", "e", "r", "t", ":">> \o Unwrap(obj.insertion)>>
        ELSE <<>>)

\* Serializer::serialize_object: style_changes
style_changes(obj, prev_style) ==
  color_change(obj, prev_style) \o decoration_changes(obj, prev_style)

\* Serializer::serialize_object: the opening tags written for style_changes
open_tags(changes) ==
  Flatten([i \in 1..Len(changes) |-> <<"<">> \o changes[i] \o <<">">>])

\* A close order that forgets to reverse
close_order_forward(changes) == changes

\* Serializer::serialize_object: the order the closing tags are written in
close_order(changes) == Reverse(changes)

\* Serializer::serialize_object: the closing tags written for style_changes
close_tags(changes) ==
  LET order == close_order(changes) IN
  Flatten([i \in 1..Len(order) |-> <<"<", "/">> \o order[i] \o <<">">>])

\* Serializer::serialize_object: the new current_style
updated_style(obj, current) ==
  [f \in StyleFields |->
     IF f = "color" \/ f \in Range(DecorationFields) THEN obj[f] ELSE current[f]]

\* Serializer::new.  calls is the call stack: the components still to be
\* serialized and the serialize_object calls still to be finished, innermost
\* first.
Serializer_new(component) ==
  [output |-> <<>>, current_style |-> DefaultStyle,
   calls |-> <<[op |-> "component", component |-> component]>>]

ComponentCalls(cs) == [i \in 1..Len(cs) |-> [op |-> "component", component |-> cs[i]]]

\* Serializer::serialize_component of a String
serialize_string(s, str) ==
  [s EXCEPT !.output = @ \o escape_text(str), !.calls = Tail(@)]

\* Serializer::serialize_component of an Array: its components, in order
serialize_array(s, components) ==
  [s EXCEPT !.calls = ComponentCalls(components) \o Tail(@)]

\* A serialize_object that writes the closing tags before the children
serialize_object_closing_first(s, obj) ==
  [output |-> s.output \o open_tags(style_changes(obj, s.current_style))
                \o (IF obj.text # None THEN escape_text(Unwrap(obj.text)) ELSE <<>>),
   current_style |-> updated_style(obj, s.current_style),
   calls |-> <<[op |-> "close", style_changes |-> style_changes(obj, s.current_style),
                prev_style |-> s.current_style]>>
               \o ComponentCalls(IF obj.extra # None THEN Unwrap(obj.extra) ELSE <<>>)
               \o Tail(s.calls)]

\* Serializer::serialize_object up to its children: the opening tags, the new
\* current style, the text; the children and then the rest of the call follow
serialize_object(s, obj) ==
  LET prev_style == s.current_style
      changes == style_changes(obj, prev_style)
      text == IF obj.text # None THEN escape_text(Unwrap(obj.text)) ELSE <<>>
      extra == IF obj.extra # None THEN Unwrap(obj.extra) ELSE <<>>
  IN  [output |-> s.output \o open_tags(changes) \o text,
       current_style |-> updated_style(obj, s.current_style),
       calls |-> ComponentCalls(extra)
                   \o <<[op |-> "close", style_changes |-> changes,
                         prev_style |-> prev_style]>>
                   \o Tail(s.calls)]

\* A return that leaves the node's style in place
close_object_keeping_style(s, call) ==
  [output |-> s.output \o close_tags(call.style_changes),
   current_style |-> s.current_style,
   calls |-> Tail(s.calls)]

\* Serializer::serialize_object after its children: the closing tags, and the
\* previous style restored
close_object(s, call) ==
  [output |-> s.output \o close_tags(call.style_changes),
   current_style |-> call.prev_style,
   calls |-> Tail(s.calls)]

\* One step of the serializer: the innermost pending call
serialize_step(s) ==
  LET call == Head(s.calls) IN
  IF call.op = "close" THEN close_object(s, call)
  ELSE CASE call.component.type = "String" -> serialize_string(s, call.component.value)
         [] call.component.type = "Array" -> serialize_array(s, call.component.value)
         [] call.component.type = "Object" -> serialize_object(s, call.component.value)

RECURSIVE serialize_loop(_)
serialize_loop(s) == IF s.calls = <<>> THEN s ELSE serialize_loop(serialize_step(s))

\* Serializer::serialize: the output string
serialize(component) == serialize_loop(Serializer_new(component)).output

(* ------------------------------- inputs -------------------------------- *)
\* Every sequence over S of length at most n
RECURSIVE SeqsUpTo(_, _)
SeqsUpTo(S, n) ==
  IF n = 0 THEN {<<>>}
  ELSE LET shorter == SeqsUpTo(S, n - 1) IN
       shorter \cup {Append(s, x) : s \in shorter, x \in S}

\* The characters inputs are made of: text, the markup's special characters
\* and one non-ASCII character
RawChars == {<<"x">>, <<"<">>, <<">">>, <<"/">>, <<"&">>, <<" ">>, <<":">>, <<"'">>, <<LeadByte, ContByte>>}

\* Whole tags and text pieces inputs are made of
Tokens ==
  {<<"<", "r", "e", "d", ">">>, <<"<", "/", "r", "e", "d", ">">>, <<"<", "b", "o", "l", "d", ">">>, <<"<", "/", "b", "o", "l", "d", ">">>, <<"<", "i", "t", "a", "l", "i", "c", ">">>, <<"<", "c", "o", "l", "o", "r", " ", "#", "1", "2", "3", "4", "5", "6", ">">>,
   <<"<", "c", "o", "l", "o", "r", " ", "#", "F", "F", "5", "5", "5", "5", ">">>, <<"<", "/", "c", "o", "l", "o", "r", ">">>, <<"x">>, <<"&", ">">>, <<"<", "h", "o", "v", "e", "r", " ", "s", "h", "o", "w", "_", "t", "e", "x", "t", " ", "'", "<", "r", "e", "d", ">", "t", "'", ">">>}

\* The inputs the repository's tests and documentation use, and variants
HoverExample == <<"<", "h", "o", "v", "e", "r", ":", "s", "h", "o", "w", "_", "t", "e", "x", "t", ":", "'", "<", "r", "e", "d", ">", "t", "i", "p", "'", ">", "l", "a", "b", "e", "l", "<", "/", "h", "o", "v", "e", "r", ">">>
CrossedExample == <<"<", "b", "o", "l", "d", ">", "<", "i", "t", "a", "l", "i", "c", ">", "x", "<", "/", "b", "o", "l", "d", ">", "<", "/", "i", "t", "a", "l", "i", "c", ">">>
Examples ==
  {HoverExample, CrossedExample,
   <<"<", "h", "o", "v", "e", "r", " ", "s", "h", "o", "w", "_", "t", "e", "x", "t", " ", "'", "<", "r", "e", "d", ">", "t", "i", "p", "'", ">", "l", "a", "b", "e", "l", "<", "/", "h", "o", "v", "e", "r", ">">>,
   <<"H", "e", "l", "l", "o", " ", "<", "r", "e", "d", ">", "w", "o", "r", "l", "d", "<", "/", "r", "e", "d", ">", "!">>,
   <<"C", "l", "i", "c", "k", " ", "<", "h", "o", "v", "e", "r", ":", "s", "h", "o", "w", "_", "t", "e", "x", "t", ":", "'", "<", "r", "e", "d", ">", "A", "c", "t", "i", "o", "n", "!", "'", ">", "h", "e", "r", "e", "<", "/", "h", "o", "v", "e", "r", ">">>,
   <<"<", "c", "o", "l", "o", "r", ":", "r", "e", "d", ">", "x">>, <<"<", "c", "o", "l", "o", "r", " ", "r", "e", "d", ">", "x">>, <<"<", "c", "o", "l", "o", "r", ":", ":", " ", " ", "r", "e", "d", ">", "x">>, <<"<", "c", "o", "l", "o", "r", " ", "'", "r", "e", "d", "'", ">", "x">>,
   <<"<", "h", "o", "v", "e", "r", " ", "s", "h", "o", "w", "_", "t", "e", "x", "t", " ", "\"", "a", "&", "b", "\"", ">", "x">>, <<"<", "h", "o", "v", "e", "r", " ", "s", "h", "o", "w", "_", "t", "e", "x", "t", " ", "'", "\\", "'", "<", "b", ">", "'", ">", "x">>}

\* <c>X</c>
ColorTagged(c, X) == <<"<">> \o c \o <<">">> \o X \o <<"<", "/">> \o c \o <<">">>

\* A text wrapped in each of the 16 colour tags
ColorTexts == {<<"x">>, <<"a", " ", "b">>, <<LeadByte, ContByte>>}
ColorExamples ==
  {ColorTagged(NamedColorTable[k].name, X) : k \in DOMAIN NamedColorTable, X \in ColorTexts}

\* Self-closing tags of an unrecognised name, under several ambient styles
SelfClosingExamples ==
  {<<"<", "f", "o", "o", "/", ">">>, <<"<", "y", "e", "l", "l", "o", "w", ">", "<", "f", "o", "o", "/", ">">>, <<"<", "b", "o", "l", "d", ">", "<", "f", "o", "o", "/", ">", "x">>, <<"<", "i", "n", "s", "e", "r", "t", " ", "a", ">", "<", "f", "o", "o", "/", ">">>,
   <<"<", "h", "o", "v", "e", "r", " ", "s", "h", "o", "w", "_", "t", "e", "x", "t", " ", "'", "t", "'", ">", "<", "f", "o", "o", "/", ">">>, <<"<", "c", "l", "i", "c", "k", " ", "r", "u", "n", "_", "c", "o", "m", "m", "a", "n", "d", " ", "a", ">", "<", "f", "o", "o", "/", ">">>}

\* Inputs that fail after a component has been built
FailingExamples ==
  {<<"x", "<", "h", "o", "v", "e", "r", " ", "s", "h", "o", "w", "_", "t", "e", "x", "t", " ", "'", "<", "/", "b", ">", "'", ">", "y">>, <<"x", "<", "h", "o", "v", "e", "r", " ", "s", "h", "o", "w", "_", "t", "e", "x", "t", " ", "'", "<", "r", "e", "d", "'", ">", "y">>, <<"x", "<", "/", "b", ">">>, <<"x", "<", "r", "e", "d">>, <<"x", "<", "c", "o", "l", "o", "r", " ", "\"", ">">>}

\* The closing tag names of the explicit list, and names outside it: the
\* colour names, reset, newline, br and an unknown name
ListedCloseNames ==
  {<<"b", "o", "l", "d">>, <<"b">>, <<"i", "t", "a", "l", "i", "c">>, <<"i">>, <<"e", "m">>, <<"u", "n", "d", "e", "r", "l", "i", "n", "e", "d">>, <<"u">>, <<"s", "t", "r", "i", "k", "e", "t", "h", "r", "o", "u", "g", "h">>, <<"s", "t">>,
   <<"o", "b", "f", "u", "s", "c", "a", "t", "e", "d">>, <<"o", "b", "f">>, <<"c", "o", "l", "o", "r">>, <<"c", "o", "l", "o", "u", "r">>, <<"c">>, <<"c", "l", "i", "c", "k">>, <<"h", "o", "v", "e", "r">>, <<"i", "n", "s", "e", "r", "t">>,
   <<"i", "n", "s", "e", "r", "t", "i", "o", "n">>}
OtherCloseNames ==
  {NamedColorTable[k].name : k \in DOMAIN NamedColorTable}
    \cup {<<"r", "e", "s", "e", "t">>, <<"n", "e", "w", "l", "i", "n", "e">>, <<"b", "r">>, <<"f", "o", "o">>}

ClosingTag(n) == <<"<", "/">> \o n \o <<">">>

\* A closing tag on the default frame alone, on one more frame, on two more
CloseExamples ==
  {prefix \o ClosingTag(n) :
     prefix \in {<<>>, <<"<", "r", "e", "d", ">">>, <<"<", "b", "o", "l", "d", ">", "<", "i", "t", "a", "l", "i", "c", ">">>},
     n \in ListedCloseNames \cup OtherCloseNames}

\* <name arg1 arg2 ...>
RECURSIVE SpacedArguments(_)
SpacedArguments(args) ==
  IF args = <<>> THEN <<>> ELSE << " " >> \o Head(args) \o SpacedArguments(Tail(args))

OpeningTag(name, args) == <<"<">> \o name \o SpacedArguments(args) \o <<">">>

\* The three spellings of the colour tag, each with colour names, six-digit
\* hex colours and arguments that are neither, followed by a text
ColorTagNames == {<<"c", "o", "l", "o", "r">>, <<"c", "o", "l", "o", "u", "r">>, <<"c">>}
ColorArguments ==
  {<<"r", "e", "d">>, <<"d", "a", "r", "k", "_", "b", "l", "u", "e">>, <<"w", "h", "i", "t", "e">>, <<"#", "1", "2", "A", "b", "E", "f">>, <<"#", "0", "0", "0", "0", "0", "0">>, <<"#", "1", "2", "3", "4", "5", "g">>, <<"#", "z", "z", "z", "z", "z", "z">>,
   <<"#", "1", "2", "3", "4", "5">>, <<"#", "1", "2", "3", "4", "5", "6", "7">>, <<"1", "2", "3", "4", "5", "6", "7">>, <<"R", "E", "D">>, <<"r", "o", "u", "g", "e">>, <<"#">>}
ColorArgExamples ==
  {OpeningTag(n, <<a>>) \o <<"x">> : n \in ColorTagNames, a \in ColorArguments}

\* Click tags with no, one, two and three arguments, under two ambient styles
ClickActions ==
  {<<"r", "u", "n", "_", "c", "o", "m", "m", "a", "n", "d">>, <<"s", "u", "g", "g", "e", "s", "t", "_", "c", "o", "m", "m", "a", "n", "d">>, <<"o", "p", "e", "n", "_", "u", "r", "l">>, <<"c", "o", "p", "y", "_", "t", "o", "_", "c", "l", "i", "p", "b", "o", "a", "r", "d">>, <<"o", "p", "e", "n", "_", "f", "i", "l", "e">>,
   <<"R", "U", "N", "_", "C", "O", "M", "M", "A", "N", "D">>}
ClickArgLists ==
  {<<>>} \cup {<<a>> : a \in ClickActions}
         \cup {<<a, <<"v">>>> : a \in ClickActions}
         \cup {<<a, <<"v">>, <<"w">>>> : a \in ClickActions}
ClickExamples ==
  {prefix \o OpeningTag(<<"c", "l", "i", "c", "k">>, args) \o <<"x">> :
     prefix \in {<<>>, <<"<", "r", "e", "d", ">">>}, args \in ClickArgLists}

\* The two spellings of the newline tag, under three ambient styles
NewlineTags == {<<"<", "n", "e", "w", "l", "i", "n", "e", ">">>, <<"<", "b", "r", ">">>}
NewlineExamples ==
  {prefix \o tag \o suffix :
     prefix \in {<<>>, <<"<", "r", "e", "d", ">">>, <<"<", "b", "o", "l", "d", ">">>}, tag \in NewlineTags, suffix \in {<<>>, <<"x">>}}

\* Opening tags of unrecognised names with no, one and two arguments, one of
\* them quoted and one not ASCII, under five ambient styles
UnknownNames == {<<"f", "o", "o">>, <<"r", "a", "i", "n", "b", "o", "w">>, <<"a", "-", "b", "_", "1">>}
UnknownArgLists == {<<>>, <<<<"a">>>>, <<<<"a">>, <<"b">>>>, <<<<"'", "a", " ", "b", "'">>, <<"c">>>>, <<<<LeadByte, ContByte>>>>}
UnknownTagExamples ==
  {prefix \o OpeningTag(n, args) \o <<"x">> :
     prefix \in {<<>>, <<"<", "r", "e", "d", ">">>, <<"<", "b", "o", "l", "d", ">">>, <<"<", "i", "n", "s", "e", "r", "t", " ", "a", ">">>, <<"<", "h", "o", "v", "e", "r", " ", "s", "h", "o", "w", "_", "t", "e", "x", "t", " ", "'", "a", "<", "r", "e", "d", ">", "b", "'", ">">>},
     n \in UnknownNames, args \in UnknownArgLists}

\* A reset on stacks of one to four frames, followed by a text
ResetExamples ==
  {prefix \o <<"<", "r", "e", "s", "e", "t", ">", "x">> :
     prefix \in {<<>>, <<"<", "r", "e", "d", ">">>, <<"<", "r", "e", "d", ">", "<", "b", "o", "l", "d", ">">>, <<"<", "b", "o", "l", "d", ">", "<", "i", "t", "a", "l", "i", "c", ">", "<", "r", "e", "d", ">">>, <<"<", "i", "n", "s", "e", "r", "t", " ", "a", ">", "<", "b", "o", "l", "d", ">">>,
                 <<"<", "r", "e", "d", ">", "<", "b", "o", "l", "d", ">", "<", "/", "b", "o", "l", "d", ">">>}}

\* Tag names in upper and mixed case, and tags without a name
CaseExamples ==
  {<<"<", "R", "E", "D", ">", "x", "<", "/", "R", "E", "D", ">">>, <<"<", "R", "e", "d", ">", "x">>, <<"<", "r", "e", "d", ">", "x">>, <<"<", "B", "O", "L", "D", ">", "x", "<", "/", "B", "o", "l", "d", ">">>, <<"<", "F", "O", "O", " ", "a", ">">>, <<"<", "B", "r", ">">>, <<"x", "<", "/", "R", "E", "D", ">">>,
   <<"<", "C", "o", "l", "o", "r", " ", "r", "e", "d", ">", "x">>, <<"<", "a", "-", "B", "_", "1", ">">>, <<"<", " ", "r", "e", "d", ">">>, <<"x", "<", ">">>, <<"x", "<", "/", ">">>, <<"x", "<">>, <<"<", "3", ">">>, <<"<", LeadByte, ContByte, ">">>, <<"<", "/", " ", "b", ">">>}

\* <T args>x</T> for the stacking tag names and the colour names, with
\* argument lists of no, one and two arguments, on the default frame alone and
\* on two more frames
StackingArgLists ==
  {<<>>, <<<<"r", "e", "d">>>>, <<<<"n", "o", "c", "o", "l", "o", "r">>>>, <<<<"f", "o", "o">>>>, <<<<"r", "u", "n", "_", "c", "o", "m", "m", "a", "n", "d">>, <<"v">>>>, <<<<"s", "h", "o", "w", "_", "t", "e", "x", "t">>, <<"a">>>>,
   <<<<"s", "h", "o", "w", "_", "i", "t", "e", "m">>, <<"a">>>>}
StackingExamples ==
  {prefix \o OpeningTag(n, args) \o <<"x">> \o ClosingTag(n) :
     prefix \in {<<>>, <<"<", "r", "e", "d", ">", "<", "u", ">">>},
     n \in ListedCloseNames \cup {NamedColorTable[k].name : k \in DOMAIN NamedColorTable},
     args \in StackingArgLists}

\* Quoted arguments as they are written, each with the value it stands for,
\* and quoted arguments whose closing quote is missing
QuotedArguments ==
  {[raw |-> <<"'", "a", " ", "b", "'">>, value |-> <<"a", " ", "b">>],
   [raw |-> <<"\"", "a", "'", "b", "\"">>, value |-> <<"a", "'", "b">>],
   [raw |-> <<"'", "a", "\"", "b", "'">>, value |-> <<"a", "\"", "b">>],
   [raw |-> <<"'", "a", "\\", "'", "b", "'">>, value |-> <<"a", "'", "b">>],
   [raw |-> <<"\"", "\\", "\"", "x", "\"">>, value |-> <<"\"", "x">>],
   [raw |-> <<"'", "a", "\\", "\\", "'">>, value |-> <<"a", "\\">>],
   [raw |-> <<"'", "\\", "x", "\\", ":", "'">>, value |-> <<"x", ":">>],
   [raw |-> <<"'", "<", ":", ">", "/", " ", "'">>, value |-> <<"<", ":", ">", "/", " ">>],
   [raw |-> <<"'", "'">>, value |-> <<>>],
   [raw |-> <<"'", LeadByte, ContByte, "'">>, value |-> <<LeadByte, ContByte>>]}
UnterminatedArguments == {<<"'", "a", "b", "c">>, <<"\"", "a", "b", "'">>, <<"'", "a", "b", "\\", "'">>, <<"'", "a", "b", "\\">>, <<"'">>, <<"\"", "a", ">">>}
QuotedExamples ==
  {<<"<", "i", "n", "s", "e", "r", "t", " ">> \o a.raw \o <<">", "x">> : a \in QuotedArguments}
    \cup {<<"<", "i", "n", "s", "e", "r", "t", " ">> \o raw : raw \in UnterminatedArguments}

\* The inputs of at most rawLen characters, those of at most tokens tokens,
\* and the examples
Inputs(rawLen, tokens) ==
  {Flatten(cs) : cs \in SeqsUpTo(RawChars, rawLen)}
    \cup {Flatten(ts) : ts \in SeqsUpTo(Tokens, tokens)}
    \cup Examples
    \cup ColorExamples
    \cup SelfClosingExamples
    \cup FailingExamples
    \cup CloseExamples
    \cup ColorArgExamples
    \cup ClickExamples
    \cup NewlineExamples
    \cup UnknownTagExamples
    \cup ResetExamples
    \cup CaseExamples
    \cup QuotedExamples
    \cup StackingExamples

Configs == {Config(s, l) : s \in BOOLEAN, l \in BOOLEAN}

\* The nodes trees are made of, without their children
Shell(text, color, bold, italic) ==
  [DefaultObject EXCEPT !["text"] = text, !["color"] = color,
                        !["bold"] = bold, !["italic"] = italic]

MalformedHex == <<"#", "a", ">", "b", "<", "c", ">">>

Shells ==
  {Shell(Some(<<"x">>), None, None, None),
   Shell(None, None, None, None),
   Shell(Some(<<"a">>), Some(Named("Red")), None, None),
   Shell(Some(<<"b">>), Some(Named("Blue")), None, None),
   Shell(Some(<<"c">>), Some(Hex(<<"#", "F", "F", "5", "5", "5", "5">>)), None, None),
   Shell(Some(<<"d">>), Some(Hex(<<"#", "1", "2", "3", "4", "5", "6">>)), None, None),
   Shell(Some(<<"e">>), Some(Hex(MalformedHex)), None, None),
   Shell(Some(<<"f">>), None, Some(TRUE), None),
   Shell(Some(<<"g">>), None, Some(FALSE), None),
   Shell(Some(<<"<", "&", ">">>), Some(Named("Red")), Some(TRUE), Some(TRUE)),
   [Shell(Some(<<"h">>), None, None, None) EXCEPT
      !["underlined"] = Some(TRUE), !["strikethrough"] = Some(TRUE),
      !["obfuscated"] = Some(TRUE)],
   [Shell(Some(<<"a">>), Some(Named("Red")), None, None) EXCEPT
      !["font"] = Some(<<"u", "n", "i", "f", "o", "r", "m">>), !["shadow_color"] = Some(<<"#", "0", "0", "0", "0", "0", "0">>),
      !["insertion"] = Some(<<"i", "n", "s">>),
      !["click_event"] = Some([action |-> "RunCommand", value |-> <<"/", "s", "a", "y">>]),
      !["hover_event"] = Some([action |-> "ShowText", value |-> StringComp(<<"t", "i", "p">>)])]}

with_children(shell, children) == ObjectComp([shell EXCEPT !["extra"] = Some(children)])

Leaves == {ObjectComp(sh) : sh \in Shells} \cup {StringComp(<<"s", "<", "t">>)}

\* Chains of nested nodes, at most depth deep
RECURSIVE Chains(_)
Chains(depth) ==
  IF depth <= 1 THEN Leaves
  ELSE LET inner == Chains(depth - 1) IN
       inner \cup {with_children(sh, <<c>>) : sh \in Shells, c \in inner}

\* A node with several leaves as children
Fans(width) == {with_children(sh, cs) : sh \in Shells, cs \in SeqsUpTo(Leaves, width)}

\* An Array of several leaves
Arrays(width) == {ArrayComp(cs) : cs \in SeqsUpTo(Leaves, width)}

\* The tree of tests::test_serialize_simple
TestSerializeTree ==
  Component_append(
    Component_color(Component_text(<<"H", "e", "l", "l", "o", " ">>), Some(Named("Yellow"))),
    Component_color(Component_text(<<"w", "o", "r", "l", "d">>), Some(Named("Red"))))

\* A text leaf holding a tag-like substring
EscapeExampleTree == Component_text(<<"a", "<", "b", ">", "&", "c">>)

\* The String and Object components handed to the serializer
Trees(depth, width) ==
  Chains(depth) \cup Fans(width) \cup {TestSerializeTree, EscapeExampleTree}

(* --------------------------- the two programs -------------------------- *)
VARIABLES
  parser,      \* the Parser of the running MiniMessage::parse call
  parsed,      \* what the call returned: None while it runs
  serializer,  \* the Serializer of the running to_string call, with its call stack
  component,   \* the Component handed to to_string
  serialized   \* what the call returned: None while it runs

vars == <<parser, parsed, serializer, component, serialized>>

\* The end of an iteration of the main loop: the call goes on, or returns
\* the Err (or panics), or is inside an iteration that never returns
Iterate(q) ==
  IF q.error = Diverges THEN UNCHANGED <<parser, parsed>>
  ELSE /\ parser' = q
       /\ parsed' = IF q.error # NoError THEN Some(parse_return(q)) ELSE None

\* MiniMessage::parse: a fresh parser on the input, under the configuration
Init ==
  /\ \E input \in Inputs(MaxRawLen, MaxTokens), config \in Configs : parser = Parser_new(input, config)
  /\ parsed = None
  /\ serializer = [output |-> <<>>, current_style |-> DefaultStyle, calls |-> <<>>]
  /\ component = ArrayComp(<<>>)
  /\ serialized = None

Parsing ==
  /\ parsed = None
  /\ parser.position < Len(parser.input)

\* One iteration of the main loop that starts at "<".  An Err or a panic ends
\* the call; an iteration that never returns leaves everything as it is.
ParseTag ==
  /\ Parsing
  /\ starts_with(parser.input, parser.position, "<")
  /\ Iterate(parse_iteration(parser))
  /\ UNCHANGED <<serializer, component, serialized>>

\* One iteration of the main loop that starts at a literal character
ParseText ==
  /\ Parsing
  /\ ~starts_with(parser.input, parser.position, "<")
  /\ Iterate(parse_iteration(parser))
  /\ UNCHANGED <<serializer, component, serialized>>

\* The end of the main loop: the parts are taken and returned
ParseFinish ==
  /\ parsed = None
  /\ parser.position >= Len(parser.input)
  /\ parsed' = Some(parse_return(parser))
  /\ parser' = [parser EXCEPT !.component_parts = <<>>]
  /\ UNCHANGED <<serializer, component, serialized>>

Next == ParseTag \/ ParseText \/ ParseFinish

Spec == Init /\ [][Next]_vars

\* MiniMessage::to_string: a fresh serializer on the component
SerInit ==
  /\ \/ \E c \in Trees(MaxDepth, MaxWidth) : component = c /\ serializer = Serializer_new(c)
     \/ \E c \in Arrays(MaxWidth) : component = c /\ serializer = Serializer_new(c)
  /\ serialized = None
  /\ parser = Parser_new(<<>>, Config(FALSE, FALSE))
  /\ parsed = None

Serializing(op) ==
  /\ serialized = None
  /\ serializer.calls # <<>>
  /\ Head(serializer.calls).op = op

SerStep ==
  /\ serializer' = serialize_step(serializer)
  /\ UNCHANGED <<component, serialized, parser, parsed>>

SerializeString ==
  /\ Serializing("component")
  /\ Head(serializer.calls).component.type = "String"
  /\ SerStep

SerializeArray ==
  /\ Serializing("component")
  /\ Head(serializer.calls).component.type = "Array"
  /\ SerStep

SerializeObject ==
  /\ Serializing("component")
  /\ Head(serializer.calls).component.type = "Object"
  /\ SerStep

CloseObject ==
  /\ Serializing("close")
  /\ SerStep

\* Serializer::serialize returns the output
SerializeFinish ==
  /\ serialized = None
  /\ serializer.calls = <<>>
  /\ serialized' = Some(serializer.output)
  /\ UNCHANGED <<serializer, component, parser, parsed>>

SerNext ==
  SerializeString \/ SerializeArray \/ SerializeObject \/ CloseObject \/ SerializeFinish

SerSpec == SerInit /\ [][SerNext]_vars

(* ------------------------------- claims -------------------------------- *)
Returned == parsed # None
ReturnedOk == parsed # None /\ Unwrap(parsed).error = NoError
Ok(comp) == Some([error |-> NoError, value |-> Some(comp)])
DefaultConfig == Config(FALSE, FALSE)

\* The nested markup of the hover tag the parser stands at: Some(args[1]) when
\* the tag at the scan position is an opening hover tag that handle_open_tag
\* hands to a nested parser, None otherwise
hover_argument_of(name, args) ==
  IF name.error = NoError /\ name.value = <<"h", "o", "v", "e", "r">> /\ args.error = NoError
     /\ Len(args.value) >= 2 /\ args.value[1] = <<"s", "h", "o", "w", "_", "t", "e", "x", "t">>
  THEN Some(args.value[2])
  ELSE None

hover_argument_named(s, name) ==
  IF name.error # NoError THEN None
  ELSE hover_argument_of(name, read_arguments(s, name.position, <<>>))

hover_argument(p) ==
  IF starts_with(p.input, p.position, "<") /\ ~starts_with(p.input, p.position + 1, "/")
  THEN hover_argument_named(p.input, read_tag_name(p.input, p.position + 1))
  ELSE None

\* An iteration of the main loop comes to an end, and where it raises nothing
\* the scan position has advanced
Advances(p, q) ==
  /\ q.error # Diverges
  /\ q.error = NoError => q.position > p.position

\* C1: for every input and configuration the call terminates: every iteration
\* of the main loop comes to an end and, unless it raises an error, has strictly
\* advanced the scan position, and a nested hover parse runs on an input
\* strictly shorter than its caller's.
C1_ParseTerminates ==
  /\ Parsing => Advances(parser, parse_iteration(parser))
  /\ Parsing /\ hover_argument(parser) # None =>
       Len(Unwrap(hover_argument(parser))) < Len(parser.input)

\* C2: a non-empty input without "<" parses, under the default configuration,
\* to exactly one plain-text component whose text is the input, with no colour
\* and no decoration.
C2_PlainInputIsOneText ==
  (/\ Returned
   /\ parser.config = DefaultConfig
   /\ parser.input # <<>>
   /\ "<" \notin Range(parser.input))
  => parsed = Ok(Component_text(parser.input))

\* The tag names of the serializer's supported subset: the colours and the
\* boolean decorations
StyleTagNames ==
  {NamedColorTable[k].name : k \in DOMAIN NamedColorTable}
    \cup {<<"c", "o", "l", "o", "r">>, <<"c", "o", "l", "o", "u", "r">>, <<"c">>, <<"b", "o", "l", "d">>, <<"b">>, <<"i", "t", "a", "l", "i", "c">>, <<"i">>, <<"e", "m">>, <<"u", "n", "d", "e", "r", "l", "i", "n", "e", "d">>, <<"u">>,
          <<"s", "t", "r", "i", "k", "e", "t", "h", "r", "o", "u", "g", "h">>, <<"s", "t">>, <<"o", "b", "f", "u", "s", "c", "a", "t", "e", "d">>, <<"o", "b", "f">>}

\* Every "<" of s from byte index pos on starts a tag (opening or closing)
\* whose name is a colour or a decoration
RECURSIVE UsesOnlyStyleTags(_, _)
StyleTagAt(s, name) ==
  name.error = NoError /\ name.value \in StyleTagNames
    /\ UsesOnlyStyleTags(s, name.position)

UsesOnlyStyleTags(s, pos) ==
  IF pos >= Len(s) THEN TRUE
  ELSE IF s[pos + 1] # "<" THEN UsesOnlyStyleTags(s, pos + 1)
  ELSE IF starts_with(s, pos + 1, "/") THEN StyleTagAt(s, read_tag_name(s, pos + 2))
  ELSE StyleTagAt(s, read_tag_name(s, pos + 1))

\* C3: for markup that uses only colour and decoration tags and parses (under
\* the default configuration), serialize(parse(m)) parses successfully (and
\* then shows the same text with the same colour and decorations).
C3_SerializedParseReparses ==
  (ReturnedOk /\ parser.config = DefaultConfig /\ UsesOnlyStyleTags(parser.input, 0))
  => parse(serialize(Unwrap(Unwrap(parsed).value)), parser.config).error = NoError

\* The component the hover example is said to yield
HoverExampleResult ==
  ObjectComp([DefaultObject EXCEPT
    !["text"] = Some(<<"l", "a", "b", "e", "l">>),
    !["hover_event"] =
      Some([action |-> "ShowText",
            value |-> ObjectComp([DefaultObject EXCEPT
                        !["text"] = Some(<<"t", "i", "p">>),
                        !["color"] = Some(Named("Red"))])])])

\* C4: parsing <hover:show_text:'<red>tip'>label</hover> succeeds and yields
\* the node "label" whose hover action is show-text of the one red component
\* "tip".
C4_HoverExampleParses ==
  (Returned /\ parser.input = HoverExample) => parsed = Ok(HoverExampleResult)

\* C5, as stated: parsing <bold><italic>x</bold></italic> fails with the
\* unbalanced-closing-tag error.
C5_CrossedRaisesUnbalanced ==
  (Returned /\ parser.input = CrossedExample)
  => Unwrap(parsed).error = "Unbalanced closing tag"

\* The single component x with bold and italic set
CrossedResult ==
  ObjectComp([DefaultObject EXCEPT !["text"] = Some(<<"x">>),
                                   !["bold"] = Some(TRUE),
                                   !["italic"] = Some(TRUE)])

\* C5, amended: parsing <bold><italic>x</bold></italic> raises no error: each
\* closing tag pops the top frame whatever its name (after </bold>, at byte 22,
\* the italic frame is gone and the bold frame is on top; after </italic> only
\* the default frame is left), and the call returns the one component x with
\* bold and italic set.
C5_CrossedParses ==
  parser.input = CrossedExample =>
    /\ parser.error = NoError
    /\ parser.position = 22 =>
         /\ Len(parser.style_stack) = 2
         /\ current_style(parser) = [DefaultStyle EXCEPT !["bold"] = Some(TRUE)]
    /\ parser.position = 31 => parser.style_stack = <<DefaultStyle>>
    /\ Returned => parsed = Ok(CrossedResult)

C5_CrossedReturned ==
  /\ parser.input = CrossedExample
  /\ parser.position = 31
  /\ parsed = Ok(CrossedResult)

\* The component <color red>x yields
RedX ==
  ObjectComp([DefaultObject EXCEPT !["text"] = Some(<<"x">>),
                                   !["color"] = Some(Named("Red"))])

\* C6: between a tag name and its arguments any number of ":" and whitespace
\* is skipped: <color:red>, <color red> and <color::  red> parse without
\* error, to the same argument list.
C6_SeparatorsSkipped ==
  (Returned /\ parser.input \in {<<"<", "c", "o", "l", "o", "r", ":", "r", "e", "d", ">", "x">>, <<"<", "c", "o", "l", "o", "r", " ", "r", "e", "d", ">", "x">>, <<"<", "c", "o", "l", "o", "r", ":", ":", " ", " ", "r", "e", "d", ">", "x">>})
  => parsed = Ok(RedX)

(* ---- serializer ---- *)
Serialized == serialized # None

NamedNode(variant, text) ==
  ObjectComp([DefaultObject EXCEPT !["text"] = Some(text),
                                   !["color"] = Some(Named(variant))])

IsNamedNode(comp) ==
  /\ comp.type = "Object"
  /\ comp.value.text # None
  /\ comp.value.color # None
  /\ Unwrap(comp.value.color).kind = "Named"
  /\ comp = NamedNode(Unwrap(comp.value.color).value[1], Unwrap(comp.value.text))

\* <A>T</A> for a node of named colour A and text T
Tagged(node) ==
  <<"<">> \o NamedColor_to_string(Unwrap(node.color).value[1]) \o <<">">>
    \o escape_text(Unwrap(node.text))
    \o <<"<", "/">> \o NamedColor_to_string(Unwrap(node.color).value[1]) \o <<">">>

\* C7: a node of named colour A and text T with one appended child of another
\* named colour B and text U serializes to exactly <A>T</A><B>U</B>.
C7_ParentClosedBeforeChild ==
  (/\ Serialized
   /\ component.type = "Object"
   /\ component.value.extra # None
   /\ Len(Unwrap(component.value.extra)) = 1
   /\ IsNamedNode(Unwrap(component.value.extra)[1])
   /\ IsNamedNode(ObjectComp([component.value EXCEPT !["extra"] = None]))
   /\ component.value.color # Unwrap(component.value.extra)[1].value.color)
  => Unwrap(serialized)
       = Tagged(component.value) \o Tagged(Unwrap(component.value.extra)[1].value)

\* The closing tags of the deltas, last delta first
ReverseCloseTags(changes) ==
  Flatten([i \in 1..Len(changes) |->
             <<"<", "/">> \o changes[Len(changes) + 1 - i] \o <<">">>])

\* What a component is to serialize to under an ambient style: a node is its
\* deltas' opening tags, its escaped text, its children in order (under the
\* style the node leaves), and its deltas' closing tags in reverse order
RECURSIVE Render(_, _)
RECURSIVE RenderAll(_, _)
RenderAll(components, ambient) ==
  IF components = <<>> THEN <<>>
  ELSE Render(Head(components), ambient) \o RenderAll(Tail(components), ambient)

Render(comp, ambient) ==
  CASE comp.type = "String" -> escape_text(comp.value)
    [] comp.type = "Array" -> RenderAll(comp.value, ambient)
    [] comp.type = "Object" ->
         open_tags(style_changes(comp.value, ambient))
           \o (IF comp.value.text # None THEN escape_text(Unwrap(comp.value.text))
               ELSE <<>>)
           \o RenderAll(IF comp.value.extra # None THEN Unwrap(comp.value.extra)
                        ELSE <<>>,
                        updated_style(comp.value, ambient))
           \o ReverseCloseTags(style_changes(comp.value, ambient))

RECURSIVE TagEnd(_, _)
TagEnd(s, i) == IF i > Len(s) THEN 0 ELSE IF s[i] = ">" THEN i ELSE TagEnd(s, i + 1)

RECURSIVE Tags(_, _)
TagFrom(s, i, end) ==
  IF end = 0 THEN <<>>
  ELSE IF i + 1 <= Len(s) /\ s[i + 1] = "/"
  THEN <<[closing |-> TRUE, body |-> SubSeq(s, i + 2, end - 1)]>> \o Tags(s, end + 1)
  ELSE <<[closing |-> FALSE, body |-> SubSeq(s, i + 1, end - 1)]>> \o Tags(s, end + 1)

Tags(s, i) ==
  IF i > Len(s) THEN <<>>
  ELSE IF s[i] = "<" THEN TagFrom(s, i, TagEnd(s, i + 1))
  ELSE Tags(s, i + 1)

\* No opening tag is written while a tag with the same body is still open
RECURSIVE NoReopening(_, _)
NoReopening(tags, open) ==
  IF tags = <<>> THEN TRUE
  ELSE IF Head(tags).closing
  THEN NoReopening(Tail(tags), IF open = <<>> THEN <<>> ELSE Tail(open))
  ELSE /\ Head(tags).body \notin Range(open)
       /\ NoReopening(Tail(tags), <<Head(tags).body>> \o open)

\* C9: the serializer never writes an opening tag for an effect that is still
\* active: no colour tag inside a still-open tag of the same colour (also when
\* the colour comes back as the canonical Hex, or below a node that leaves the
\* colour unset), no <d> inside a still-open <d>.
C9_NoTagReopened == NoReopening(Tags(serializer.output, 1), <<>>)

\* Every closing tag closes the tag opened last, and none is left open
RECURSIVE ProperlyNested(_, _)
ProperlyNested(tags, open) ==
  IF tags = <<>> THEN open = <<>>
  ELSE IF Head(tags).closing
  THEN /\ open # <<>>
       /\ Head(open) = Head(tags).body
       /\ ProperlyNested(Tail(tags), Tail(open))
  ELSE ProperlyNested(Tail(tags), <<Head(tags).body>> \o open)

\* No Hex colour of the tree holds a "<" or a ">"
RECURSIVE HexColorsPlain(_)
HexColorsPlain(comp) ==
  CASE comp.type = "String" -> TRUE
    [] comp.type = "Array" -> \A i \in DOMAIN comp.value : HexColorsPlain(comp.value[i])
    [] comp.type = "Object" ->
         /\ \/ comp.value.color = None
            \/ Unwrap(comp.value.color).kind = "Named"
            \/ Range(Unwrap(comp.value.color).value) \cap {"<", ">"} = {}
         /\ \/ comp.value.extra = None
            \/ \A i \in DOMAIN Unwrap(comp.value.extra) :
                 HexColorsPlain(Unwrap(comp.value.extra)[i])

Escaped(text) ==
  Flatten([i \in DOMAIN text |->
             IF text[i] = "<" THEN <<"&", "l", "t", ";">>
             ELSE IF text[i] = ">" THEN <<"&", "g", "t", ";">>
             ELSE IF text[i] = "&" THEN <<"&", "a", "m", "p", ";">>
             ELSE <<text[i]>>])

\* What a step writes after the output so far and the given opening tags
Written(s, tags) ==
  SubSeq(serialize_step(s).output, Len(s.output) + Len(tags) + 1,
         Len(serialize_step(s).output))

\* The opening tags the serializer writes for the Object it is about to visit
OpeningTags(s) ==
  open_tags(style_changes(Head(s.calls).component.value, s.current_style))

\* C11: every text leaf (a String component or a node's text) is written
\* verbatim except that "<" becomes "&lt;", ">" becomes "&gt;" and "&" becomes
\* "&amp;": what is written for the text holds no "<" and no ">", and the text
\* a<b>&c appears as a&lt;b&gt;&amp;c.
C11_TextEscaped ==
  /\ (Serializing("component") /\ Head(serializer.calls).component.type = "String")
     => /\ Written(serializer, <<>>) = Escaped(Head(serializer.calls).component.value)
        /\ Range(Written(serializer, <<>>)) \cap {"<", ">"} = {}
  /\ (/\ Serializing("component")
      /\ Head(serializer.calls).component.type = "Object"
      /\ Head(serializer.calls).component.value.text # None)
     => /\ Written(serializer, OpeningTags(serializer))
             = Escaped(Unwrap(Head(serializer.calls).component.value.text))
        /\ Range(Written(serializer, OpeningTags(serializer))) \cap {"<", ">"} = {}
  /\ (Serialized /\ component = EscapeExampleTree)
     => Unwrap(serialized) = <<"a", "&", "l", "t", ";", "b", "&", "g", "t", ";", "&", "a", "m", "p", ";", "c">>

C11_TagLikeTextSerialized ==
  /\ Serialized
  /\ component = EscapeExampleTree
  /\ Unwrap(serialized) = <<"a", "&", "l", "t", ";", "b", "&", "g", "t", ";", "&", "a", "m", "p", ";", "c">>

(* ---- parser: result shape, colours, end of input ---- *)
\* The main loop is over and the call is about to return
Finishing == parsed = None /\ parser.position >= Len(parser.input)

IsPrefix(s, t) == Len(s) <= Len(t) /\ SubSeq(t, 1, Len(s)) = s

\* The parts T1, T2 (red), T3 of the input of tests::test_parse_simple
SimpleExampleParts ==
  <<Component_text(<<"H", "e", "l", "l", "o", " ">>), NamedNode("Red", <<"w", "o", "r", "l", "d">>), Component_text(<<"!">>)>>

\* An iteration that raises nothing keeps the parts built so far, in order
KeepsParts(p, q) == q.error = NoError => IsPrefix(p.component_parts, q.component_parts)

\* C12: a successful parse that built exactly one top-level component returns
\* it directly; with none, or two or more, it returns a Sequence of the
\* components in the order they were met in the input (no iteration drops or
\* reorders a part already built): Hello <red>world</red>! yields the Sequence
\* of the three components Hello , world (red) and !.
C12_ResultShape ==
  /\ (Finishing /\ Len(parser.component_parts) = 1)
     => parse_return(parser) = [error |-> NoError, value |-> Some(parser.component_parts[1])]
  /\ (Finishing /\ Len(parser.component_parts) # 1)
     => parse_return(parser)
          = [error |-> NoError,
             value |-> Some([type |-> "Array", value |-> parser.component_parts])]
  /\ Parsing => KeepsParts(parser, parse_iteration(parser))
  /\ (Returned /\ parser.input = <<"H", "e", "l", "l", "o", " ", "<", "r", "e", "d", ">", "w", "o", "r", "l", "d", "<", "/", "r", "e", "d", ">", "!">>)
     => parsed = Ok(ArrayComp(SimpleExampleParts))

C12_ThreePartsReturned ==
  /\ parser.input = <<"H", "e", "l", "l", "o", " ", "<", "r", "e", "d", ">", "w", "o", "r", "l", "d", "<", "/", "r", "e", "d", ">", "!">>
  /\ parsed = Ok(ArrayComp(SimpleExampleParts))

\* C13: for each of the 16 colour names c and every non-empty text X without
\* "<", parsing <c>X</c> succeeds with exactly the one node of text X and
\* colour Named(c), and after the closing tag the style stack is the single
\* default frame again.
C13_ColorTagsParse ==
  \A k \in DOMAIN NamedColorTable, X \in ColorTexts :
    (Returned /\ parser.input = ColorTagged(NamedColorTable[k].name, X))
    => /\ parsed = Ok(NamedNode(NamedColorTable[k].variant, X))
       /\ parser.style_stack = <<DefaultStyle>>

C15_StrictRejectsUnclosed ==
  (/\ Returned
   /\ parser.config.strict
   /\ parser.position >= Len(parser.input)
   /\ Len(parser.style_stack) > 1)
  => Unwrap(parsed).error # NoError

(* ---- parser: what a tag or a literal run adds ---- *)
\* The input goes on with s at the scan position
At(p, s) ==
  /\ p.position + Len(s) <= Len(p.input)
  /\ SubSeq(p.input, p.position + 1, p.position + Len(s)) = s

\* A component with every style attribute taken from a style frame
AtStyle(comp, style) ==
  ObjectComp([f \in ObjectFields |->
                IF f \in StyleFields THEN style[f] ELSE comp.value[f]])

\* C16: a self-closing opening tag of an unrecognised name (<foo/>) appends
\* exactly one component with empty text whose style equals the current
\* ambient style, pushes no frame and raises no error.
AppendsEmptyAtStyle(p, q) ==
  /\ q.error = NoError
  /\ q.style_stack = p.style_stack
  /\ q.component_parts
       = Append(p.component_parts, AtStyle(Component_text(<<>>), current_style(p)))

C16_SelfClosingUnknown ==
  (Parsing /\ At(parser, <<"<", "f", "o", "o", "/", ">">>)) => AppendsEmptyAtStyle(parser, parse_iteration(parser))

\* The Err a failed call returns: the error and no component
Err(e) == Some([error |-> e, value |-> None])

\* The outer iteration fails when the nested markup does
NestedFailureFails(nested, q) == nested.error # NoError => q.error # NoError

HoverFailureFails(p, arg) ==
  arg # None => NestedFailureFails(parse(Unwrap(arg), p.config), parse_iteration(p))

\* C17: any lexical or structural failure aborts the whole parse at once: as
\* soon as an iteration has raised an error the call has returned it, alone,
\* with none of the components built before; and an error inside the nested
\* markup of a hover tag makes the outer iteration fail (with that very error
\* in x<hover show_text '</b>'>y).
C17_FailureAborts ==
  /\ parser.error # NoError => parsed = Err(parser.error)
  /\ Returned /\ Unwrap(parsed).error # NoError
       => Unwrap(parsed).value = None /\ Unwrap(parsed).error = parser.error
  /\ (Parsing /\ starts_with(parser.input, parser.position, "<"))
     => HoverFailureFails(parser, hover_argument(parser))
  /\ (Returned /\ parser.input = <<"x", "<", "h", "o", "v", "e", "r", " ", "s", "h", "o", "w", "_", "t", "e", "x", "t", " ", "'", "<", "/", "b", ">", "'", ">", "y">>)
     => parsed = Err("Unbalanced closing tag")

C17_NestedErrorReturned ==
  /\ parser.input = <<"x", "<", "h", "o", "v", "e", "r", " ", "s", "h", "o", "w", "_", "t", "e", "x", "t", " ", "'", "<", "/", "b", ">", "'", ">", "y">>
  /\ parser.component_parts = <<Component_text(<<"x">>)>>
  /\ parsed = Err("Unbalanced closing tag")

\* The stack without its top frame
Popped(stack) == SubSeq(stack, 1, Len(stack) - 1)

\* C18: a closing tag named bold, b, italic, i, em, underlined, u,
\* strikethrough, st, obfuscated, obf, color, colour, c, click, hover, insert
\* or insertion pops exactly one frame, the top one whichever tag pushed it,
\* when more than the default frame is on the stack, and fails with the
\* unbalanced-closing-tag error when only the default frame is left.
PopsOrFails(p, q) ==
  IF Len(p.style_stack) > 1
  THEN /\ q.error = NoError
       /\ q.style_stack = Popped(p.style_stack)
       /\ q.component_parts = p.component_parts
  ELSE q.error = "Unbalanced closing tag"

\* The parser stands at the closing tag of one of the names
AtClosingTag(p, names) ==
  /\ At(p, <<"<", "/">>)
  /\ \E n \in names : At(p, ClosingTag(n))

C18_ListedClosePops ==
  (Parsing /\ AtClosingTag(parser, ListedCloseNames))
  => PopsOrFails(parser, parse_iteration(parser))

C18_HoverClosedRed ==
  /\ parser.input = <<"<", "r", "e", "d", ">", "<", "/", "h", "o", "v", "e", "r", ">">>
  /\ parser.position = Len(parser.input)
  /\ parser.style_stack = <<DefaultStyle>>
  /\ parser.error = NoError

\* C19: a closing tag of any name outside that list (a bare colour name,
\* reset, newline, br, an unknown name) pops exactly one frame when more than
\* the default frame is on the stack, and otherwise leaves the stack as it is;
\* it never raises an error.
PopsOrIgnores(p, q) ==
  /\ q.error = NoError
  /\ q.component_parts = p.component_parts
  /\ q.style_stack = IF Len(p.style_stack) > 1 THEN Popped(p.style_stack)
                     ELSE p.style_stack

C19_OtherClosePopsOrIgnores ==
  (Parsing /\ AtClosingTag(parser, OtherCloseNames))
  => PopsOrIgnores(parser, parse_iteration(parser))

C19_UnknownCloseIgnored ==
  /\ parser.input = <<"<", "/", "f", "o", "o", ">">>
  /\ parser.position = Len(parser.input)
  /\ parser.style_stack = <<DefaultStyle>>
  /\ parsed = Ok(ArrayComp(<<>>))

\* C20: every maximal literal run becomes exactly one component, whose colour,
\* five decorations, insertion, click action and hover action are those of the
\* top frame of the style stack when the run is scanned.
AppendsRunAtStyle(p, q) ==
  (q.error = NoError /\ q.position > p.position)
  => q.component_parts
       = Append(p.component_parts,
                AtStyle(Component_text(SubSeq(p.input, p.position + 1, q.position)),
                        current_style(p)))

C20_RunCarriesTopFrame ==
  (Parsing /\ ~starts_with(parser.input, parser.position, "<"))
  => AppendsRunAtStyle(parser, parse_iteration(parser))

(* ---- parser: the opening tags, one by one ---- *)
\* The 16 colour names
ColourNames == {NamedColorTable[k].name : k \in DOMAIN NamedColorTable}

\* The variant a colour name stands for
VariantOf(name) ==
  NamedColorTable[CHOOSE k \in DOMAIN NamedColorTable : NamedColorTable[k].name = name].variant

HexDigits ==
  Range(Digits) \cup {"a", "b", "c", "d", "e", "f", "A", "B", "C", "D", "E", "F"}

\* # followed by exactly six hexadecimal digits
IsHexColor(a) ==
  /\ Len(a) = 7
  /\ a[1] = "#"
  /\ \A i \in 2..7 : a[i] \in HexDigits

\* The colour an argument stands for, if any
ColorOf(a) ==
  IF a \in ColourNames THEN Some(Named(VariantOf(a)))
  ELSE IF IsHexColor(a) THEN Some(Hex(a))
  ELSE None

\* The stack with one more frame: the top frame with one field set
Pushed(stack, field, value) ==
  Append(stack, [stack[Len(stack)] EXCEPT ![field] = value])

\* Every Hex colour of a component, the hover texts included, is #RRGGBB
RECURSIVE HexColorsShaped(_)
HexColorsShaped(comp) ==
  CASE comp.type = "String" -> TRUE
    [] comp.type = "Array" -> \A i \in DOMAIN comp.value : HexColorsShaped(comp.value[i])
    [] comp.type = "Object" ->
         /\ \/ comp.value.color = None
            \/ Unwrap(comp.value.color).kind = "Named"
            \/ IsHexColor(Unwrap(comp.value.color).value)
         /\ \/ comp.value.extra = None
            \/ \A i \in DOMAIN Unwrap(comp.value.extra) :
                 HexColorsShaped(Unwrap(comp.value.extra)[i])
         /\ \/ comp.value.hover_event = None
            \/ HexColorsShaped(Unwrap(comp.value.hover_event).value)

\* C21: an opening color, colour or c tag pushes a frame with colour set
\* exactly when its first argument is one of the 16 colour names (giving
\* Named) or is # followed by exactly six hexadecimal digits (giving Hex), and
\* every Hex colour in a parse result has the shape #RRGGBB.
PushesColorOf(p, q, a) ==
  /\ q.error = NoError
  /\ q.component_parts = p.component_parts
  /\ q.style_stack = IF ColorOf(a) # None
                     THEN Pushed(p.style_stack, "color", ColorOf(a))
                     ELSE p.style_stack

C21_ColorArgumentStrict ==
  /\ \A n \in ColorTagNames, a \in ColorArguments :
       (Parsing /\ At(parser, OpeningTag(n, <<a>>)))
       => PushesColorOf(parser, parse_iteration(parser), a)
  /\ ReturnedOk => HexColorsShaped(Unwrap(Unwrap(parsed).value))

\* The ClickAction an action name stands for, if any
ClickActionOf(a) ==
  CASE a = <<"r", "u", "n", "_", "c", "o", "m", "m", "a", "n", "d">> -> Some("RunCommand")
    [] a = <<"s", "u", "g", "g", "e", "s", "t", "_", "c", "o", "m", "m", "a", "n", "d">> -> Some("SuggestCommand")
    [] a = <<"o", "p", "e", "n", "_", "u", "r", "l">> -> Some("OpenUrl")
    [] a = <<"c", "o", "p", "y", "_", "t", "o", "_", "c", "l", "i", "p", "b", "o", "a", "r", "d">> -> Some("CopyToClipboard")
    [] OTHER -> None

ClickOf(args) ==
  IF ClickActionOf(args[1]) = None THEN None
  ELSE Some([action |-> Unwrap(ClickActionOf(args[1])), value |-> args[2]])

\* C22: an opening click tag is handled as a click tag only when it has
\* exactly 2 arguments (action, value): it then pushes one frame carrying the
\* matching ClickAction with that value when the action is run_command,
\* suggest_command, open_url or copy_to_clipboard, and for any other action
\* pushes no frame, emits no component and raises no error; with another
\* number of arguments it pushes no click frame.
HandlesClick(p, q, args) ==
  /\ q.error = NoError
  /\ IF Len(args) = 2
     THEN /\ q.component_parts = p.component_parts
          /\ q.style_stack = IF ClickOf(args) # None
                             THEN Pushed(p.style_stack, "click_event", ClickOf(args))
                             ELSE p.style_stack
     ELSE q.style_stack = p.style_stack

C22_ClickExactlyTwoArguments ==
  \A args \in ClickArgLists :
    (Parsing /\ At(parser, OpeningTag(<<"c", "l", "i", "c", "k">>, args)))
    => HandlesClick(parser, parse_iteration(parser), args)

\* The last part is a text component with the colour and the decorations of
\* a style frame
IsTextAtStyle(comp, text, style) ==
  /\ comp.type = "Object"
  /\ comp.value.text = Some(text)
  /\ comp.value.color = style.color
  /\ \A d \in Range(DecorationFields) : comp.value[d] = style[d]

\* One part more, the parts before it as they were
AppendsOne(p, q) ==
  /\ Len(q.component_parts) = Len(p.component_parts) + 1
  /\ SubSeq(q.component_parts, 1, Len(p.component_parts)) = p.component_parts

LastPart(q) == q.component_parts[Len(q.component_parts)]

\* C23: <newline> or <br> appends exactly one component with text "\n" whose
\* colour and decorations equal the current ambient style (top frame), leaves
\* the style stack unchanged, and the parse succeeds without any closing tag
\* for it.
AppendsNewlineAtStyle(p, q) ==
  /\ q.error = NoError
  /\ q.style_stack = p.style_stack
  /\ AppendsOne(p, q)
  /\ IsTextAtStyle(LastPart(q), <<"\n">>, current_style(p))

C23_NewlineAtAmbientStyle ==
  /\ (Parsing /\ \E tag \in NewlineTags : At(parser, tag))
     => AppendsNewlineAtStyle(parser, parse_iteration(parser))
  /\ (Returned /\ parser.input \in NewlineExamples) => ReturnedOk

\* The value of an argument as it is written: a quoted argument without its
\* quotes (the examples hold no backslash)
ArgumentValue(raw) ==
  IF raw[1] \in {"'", "\""} THEN SubSeq(raw, 2, Len(raw) - 1) ELSE raw

\* < + name + (: + arg for each argument, in order) + >
RECURSIVE ColonArguments(_)
ColonArguments(raws) ==
  IF raws = <<>> THEN <<>>
  ELSE <<":">> \o ArgumentValue(Head(raws)) \o ColonArguments(Tail(raws))

LiteralTag(name, raws) == <<"<">> \o name \o ColonArguments(raws) \o <<">">>

\* C24: an opening tag with an unrecognised name that is not self-closing
\* never fails and never changes the style stack: it appends one literal
\* component whose text is < + name + (: + arg for each argument, in order)
\* + > and whose style attributes equal the top frame.
AppendsLiteralAtStyle(p, q, text) ==
  /\ q.error = NoError
  /\ q.style_stack = p.style_stack
  /\ q.component_parts
       = Append(p.component_parts, AtStyle(Component_text(text), current_style(p)))

C24_UnknownTagIsLiteral ==
  \A n \in UnknownNames, raws \in UnknownArgLists :
    (Parsing /\ At(parser, OpeningTag(n, raws)))
    => AppendsLiteralAtStyle(parser, parse_iteration(parser), LiteralTag(n, raws))

\* The input ends with s just before the scan position
After(p, s) ==
  /\ p.position >= Len(s)
  /\ SubSeq(p.input, p.position - Len(s) + 1, p.position) = s

\* C25: after an opening <reset> the style stack consists of exactly the
\* single default frame, whatever its depth was before; reset pushes no frame
\* and emits no component, so literal text that follows is unstyled.
ResetsStack(p, q) ==
  /\ q.error = NoError
  /\ q.style_stack = <<DefaultStyle>>
  /\ q.component_parts = p.component_parts

AppendsUnstyledRun(p, q) ==
  /\ q.error = NoError
  /\ q.component_parts
       = Append(p.component_parts,
                Component_text(SubSeq(p.input, p.position + 1, q.position)))

C25_ResetLeavesDefaultFrame ==
  /\ (Parsing /\ At(parser, <<"<", "r", "e", "s", "e", "t", ">">>)) => ResetsStack(parser, parse_iteration(parser))
  /\ (Parsing /\ After(parser, <<"<", "r", "e", "s", "e", "t", ">">>) /\ At(parser, <<"x">>))
     => AppendsUnstyledRun(parser, parse_iteration(parser))

C25_ResetFromThreeFrames ==
  /\ parser.input = <<"<", "r", "e", "d", ">", "<", "b", "o", "l", "d", ">", "<", "r", "e", "s", "e", "t", ">", "x">>
  /\ parser.style_stack = <<DefaultStyle>>
  /\ parsed = Ok(Component_text(<<"x">>))

(* ---- parser: the lexer ---- *)
\* The characters that end an unquoted argument
IsTerminator(c) == c \in {":", ">", "/"} \/ is_whitespace(c)

\* The positions of an input where an unquoted argument would be empty
EmptyArgumentPositions(s) ==
  {i \in 0..Len(s) : i = Len(s) \/ IsTerminator(s[i + 1])}

\* The reader returned the empty string without moving
ReadsEmpty(r, i) ==
  /\ r.error = NoError
  /\ r.value = <<>>
  /\ r.position = i

\* An iteration that does not fail for want of an argument
NeverWantsArgument(q) == q.error # "Expected argument"

\* Where the argument loop of the opening tag at the scan position first
\* invokes the argument reader: Some(position), or None when the tag has no
\* name or no argument
argument_position_after(s, w) ==
  IF w = -1 \/ starts_with(s, w, ">") \/ starts_with(s, w, "/") THEN None ELSE Some(w)

argument_position_named(s, name) ==
  IF name.error # NoError THEN None
  ELSE IF starts_with(s, name.position, ">") \/ starts_with(s, name.position, "/") THEN None
  ELSE argument_position_after(s, skip_whitespace(s, name.position))

argument_position(p) ==
  IF starts_with(p.input, p.position, "<") /\ ~starts_with(p.input, p.position + 1, "/")
  THEN argument_position_named(p.input, read_tag_name(p.input, p.position + 1))
  ELSE None

\* C26: the argument reader accepts an empty unquoted argument: invoked at a
\* terminator (:, >, /, whitespace) or at the end of the input it returns the
\* empty string and does not fail, so that no tag is rejected for an empty
\* argument.
EmptyArgumentRead(p, pos) ==
  (pos # None /\ Unwrap(pos) \in EmptyArgumentPositions(p.input))
  => /\ ReadsEmpty(read_argument(p.input, Unwrap(pos)), Unwrap(pos))
     /\ NeverWantsArgument(parse_iteration(p))

C26_EmptyArgumentAccepted ==
  Parsing => EmptyArgumentRead(parser, argument_position(parser))

\* The characters of a tag name, [A-Za-z0-9_-]
IsNameChar(c) ==
  c \in Range(Uppers) \cup Range(Lowers) \cup Range(Digits) \cup {"_", "-"}

\* Where the name of the tag at the scan position starts, after < or </
NameStart(p) ==
  IF starts_with(p.input, p.position + 1, "/") THEN p.position + 2 ELSE p.position + 1

\* The end of the maximal run of name characters from position i
RECURSIVE NameEnd(_, _)
NameEnd(s, i) ==
  IF i < Len(s) /\ IsNameChar(s[i + 1]) THEN NameEnd(s, i + 1) ELSE i

\* A text with its upper-case letters folded to lower case
Folded(s) ==
  [i \in 1..Len(s) |->
     IF \E k \in 1..Len(Uppers) : Uppers[k] = s[i]
     THEN Lowers[CHOOSE k \in 1..Len(Uppers) : Uppers[k] = s[i]]
     ELSE s[i]]

\* The parser on the same input with the characters from a to b folded
WithFoldedName(p, a, b) ==
  [p EXCEPT !.input = SubSeq(@, 1, a) \o Folded(SubSeq(@, a + 1, b))
                        \o SubSeq(@, b + 1, Len(@))]

\* Two iterations that end alike
SameOutcome(q1, q2) ==
  /\ q1.error = q2.error
  /\ q1.position = q2.position
  /\ q1.style_stack = q2.style_stack
  /\ q1.component_parts = q2.component_parts

\* C27: a tag name is the maximal run of characters from [A-Za-z0-9_-]
\* following < or </, folded to lowercase before dispatch, so that <RED>,
\* <Red> and <red> are handled identically; when that run is empty (<>,
\* < red>, </>, or < as the last character) the parse fails with the
\* expected-tag-name error.
TagNameRead(p, a, b) ==
  IF a = b
  THEN parse_iteration(p).error = "Expected tag name"
  ELSE /\ read_tag_name(p.input, a)
            = LexResult(b, Folded(SubSeq(p.input, a + 1, b)), NoError)
       /\ (\E i \in (a + 1)..b : p.input[i] \in Range(Uppers))
          => SameOutcome(parse_iteration(p), parse_iteration(WithFoldedName(p, a, b)))

C27_TagNameFolded ==
  (Parsing /\ starts_with(parser.input, parser.position, "<"))
  => TagNameRead(parser, NameStart(parser), NameEnd(parser.input, NameStart(parser)))

C27_UpperCaseRed ==
  /\ parser.input = <<"<", "R", "E", "D", ">", "x", "<", "/", "R", "E", "D", ">">>
  /\ parsed = Ok(RedX)

\* C28: a quoted argument starts with ' or " and ends at the first unescaped
\* occurrence of the same quote character; its value is the enclosed
\* characters with every escaping backslash removed and the character after
\* it taken literally (so :, >, /, <, whitespace and the other quote character
\* are ordinary content); reaching the end of the input before the closing
\* quote, also after a trailing backslash, is a fatal error.
ReadsQuoted(p, q, a) ==
  /\ read_argument(p.input, p.position + Len(<<"<", "i", "n", "s", "e", "r", "t", " ">>))
       = LexResult(p.position + Len(<<"<", "i", "n", "s", "e", "r", "t", " ">>) + Len(a.raw), a.value, NoError)
  /\ q.error = NoError
  /\ q.style_stack = Pushed(p.style_stack, "insertion", Some(a.value))

FailsUnterminated(p, q) ==
  /\ read_argument(p.input, p.position + Len(<<"<", "i", "n", "s", "e", "r", "t", " ">>)).error
       = "Unterminated quoted string"
  /\ q.error = "Unterminated quoted string"

C28_QuotedArgument ==
  /\ \A a \in QuotedArguments :
       (Parsing /\ At(parser, <<"<", "i", "n", "s", "e", "r", "t", " ">> \o a.raw \o <<">">>))
       => ReadsQuoted(parser, parse_iteration(parser), a)
  /\ \A raw \in UnterminatedArguments :
       (Parsing /\ parser.input = <<"<", "i", "n", "s", "e", "r", "t", " ">> \o raw)
       => FailsUnterminated(parser, parse_iteration(parser))

(* ---- parser: the style stack ---- *)
\* C29: in every reachable parser state, after any sequence of opening tags,
\* closing tags and resets, the style stack is non-empty and its bottom frame
\* is the all-unset default style.
C29_BottomFrameDefault ==
  /\ Len(parser.style_stack) >= 1
  /\ parser.style_stack[1] = DefaultStyle
  /\ \A f \in StyleFields : parser.style_stack[1][f] = None

C29_AfterOpenCloseReset ==
  /\ parser.input = <<"<", "r", "e", "d", ">", "<", "b", "o", "l", "d", ">", "<", "/", "b", "o", "l", "d", ">", "<", "r", "e", "s", "e", "t", ">", "x">>
  /\ parser.position = Len(<<"<", "r", "e", "d", ">", "<", "b", "o", "l", "d", ">", "<", "/", "b", "o", "l", "d", ">", "<", "r", "e", "s", "e", "t", ">">>)
  /\ parser.style_stack = <<DefaultStyle>>
  /\ parser.error = NoError

(* ---- serializer: what is not written ---- *)
\* The attributes the serializer has no tag for
UnserializedFields == {"font", "shadow_color", "insertion", "click_event", "hover_event"}

\* A tree with these attributes unset on every node
RECURSIVE WithoutUnserialized(_)
WithoutUnserialized(comp) ==
  CASE comp.type = "String" -> comp
    [] comp.type = "Array" ->
         ArrayComp([i \in 1..Len(comp.value) |-> WithoutUnserialized(comp.value[i])])
    [] comp.type = "Object" ->
         ObjectComp([f \in ObjectFields |->
           IF f \in UnserializedFields THEN None
           ELSE IF f = "extra" /\ comp.value.extra # None
           THEN Some([i \in 1..Len(Unwrap(comp.value.extra)) |->
                        WithoutUnserialized(Unwrap(comp.value.extra)[i])])
           ELSE comp.value[f]])

\* C30: the serializer's output does not depend on font, shadow colour,
\* insertion, click action or hover action: any two trees that differ only in
\* those attributes serialize to the same string, the one of the tree that
\* has none of them.
C30_UnserializedAttributesIgnored ==
  Serialized => Unwrap(serialized) = serialize(WithoutUnserialized(component))

C30_EventNodeSerialized ==
  /\ Serialized
  /\ component.type = "Object"
  /\ \A f \in UnserializedFields : component.value[f] # None
  /\ component.value.extra # None
  /\ WithoutUnserialized(component) # component
  /\ Unwrap(serialized) = <<"<", "r", "e", "d", ">", "a", "<", "b", "l", "u", "e", ">", "b", "<", "/", "b", "l", "u", "e", ">", "<", "/", "r", "e", "d", ">">>

(* ---- serializer: the ambient style ---- *)
\* The serializer when the innermost pending call has returned: the steps are
\* taken until no more than depth calls are pending
RECURSIVE finish_call(_, _)
finish_call(s, depth) ==
  IF Len(s.calls) <= depth THEN s ELSE finish_call(serialize_step(s), depth)

\* No serialize_object call is pending: the serializer is between the
\* children of the top-level Sequence
BetweenSiblings(s) == \A i \in DOMAIN s.calls : s.calls[i].op = "component"

\* C31: when serialize_object (and so every serialize_component call)
\* returns, the serializer's ambient style equals its value before the call;
\* hence all children of a Sequence are serialized against the same
\* pre-sequence ambient style and no sibling inherits a style change made by
\* an earlier sibling.
C31_AmbientStyleRestored ==
  /\ Serializing("component")
     => finish_call(serializer, Len(serializer.calls) - 1).current_style
          = serializer.current_style
  /\ (component.type = "Array" /\ BetweenSiblings(serializer))
     => serializer.current_style = DefaultStyle

C31_SecondSiblingAtDefault ==
  /\ serialized = None
  /\ component.type = "Array"
  /\ Len(component.value) = 2
  /\ component.value[1].type = "Object"
  /\ component.value[1].value.color # None
  /\ Len(serializer.calls) = 1
  /\ serializer.output # <<>>
  /\ serializer.current_style = DefaultStyle

\* The attributes the serializer has tags for
SerializedFields == {"color"} \cup Range(DecorationFields)

\* C32: while a node's own text and children are being serialized, the
\* ambient style is the node's merged style: colour and each of the five
\* decorations equal the node's value where the node sets it and the previous
\* ambient value where the node leaves it unset (unset means inherit).
IsMergedStyle(obj, prev, next) ==
  \A f \in SerializedFields :
    next[f] = IF obj[f] # None THEN obj[f] ELSE prev[f]

C32_AmbientStyleMerged ==
  (Serializing("component") /\ Head(serializer.calls).component.type = "Object")
  => IsMergedStyle(Head(serializer.calls).component.value,
                   serializer.current_style,
                   serialize_step(serializer).current_style)

(* ---- serializer: the delta list ---- *)
\* The tag body of a colour: the canonical name of a Named colour or of a Hex
\* that is one of the 16 canonical values, color:<hex> otherwise
ColourTagBody(color) ==
  IF color.kind = "Named"
  THEN NamedColorTable[CHOOSE k \in DOMAIN NamedColorTable :
                         NamedColorTable[k].variant = color.value[1]].name
  ELSE IF \E k \in DOMAIN NamedColorTable : NamedColorTable[k].hex = color.value
  THEN NamedColorTable[CHOOSE k \in DOMAIN NamedColorTable :
                         NamedColorTable[k].hex = color.value].name
  ELSE <<"c", "o", "l", "o", "r", ":">> \o color.value

ColourDelta(obj, ambient) ==
  IF obj.color # None /\ obj.color # ambient.color
  THEN <<ColourTagBody(Unwrap(obj.color))>>
  ELSE <<>>

DecorationNames ==
  <<<<"b", "o", "l", "d">>, <<"i", "t", "a", "l", "i", "c">>, <<"u", "n", "d", "e", "r", "l", "i", "n", "e", "d">>, <<"s", "t", "r", "i", "k", "e", "t", "h", "r", "o", "u", "g", "h">>, <<"o", "b", "f", "u", "s", "c", "a", "t", "e", "d">>>>

\* The decorations, in order, that the node sets to true and the ambient
\* style does not
RECURSIVE DecorationDeltas(_, _, _)
DecorationDeltas(obj, ambient, i) ==
  IF i > Len(DecorationNames) THEN <<>>
  ELSE (IF obj[DecorationFields[i]] = Some(TRUE) /\ ambient[DecorationFields[i]] # Some(TRUE)
        THEN <<DecorationNames[i]>> ELSE <<>>)
       \o DecorationDeltas(obj, ambient, i + 1)

ExpectedDeltas(obj, ambient) ==
  ColourDelta(obj, ambient) \o DecorationDeltas(obj, ambient, 1)

\* <d1><d2>...
RECURSIVE OpeningTagsOf(_)
OpeningTagsOf(deltas) ==
  IF deltas = <<>> THEN <<>>
  ELSE <<"<">> \o Head(deltas) \o <<">">> \o OpeningTagsOf(Tail(deltas))

\* C33: for a node, the emitted delta list is: first a colour tag, iff the
\* node's colour is set and differs from the ambient colour (the canonical
\* colour name when the colour is Named or is a Hex equal to one of the 16
\* canonical values, otherwise color:<hex>); then bold, italic, underlined,
\* strikethrough, obfuscated in that order, each iff the node's value is true
\* and the ambient value is not true; a decoration that is explicitly false
\* or unset never produces a tag.
WritesDeltas(s, obj, next) ==
  next.output
    = s.output \o OpeningTagsOf(ExpectedDeltas(obj, s.current_style))
        \o (IF obj.text # None THEN Escaped(Unwrap(obj.text)) ELSE <<>>)

C33_DeltaList ==
  (Serializing("component") /\ Head(serializer.calls).component.type = "Object")
  => WritesDeltas(serializer, Head(serializer.calls).component.value,
                  serialize_step(serializer))

C33_CanonicalHexSerialized ==
  /\ Serialized
  /\ component = ObjectComp(Shell(Some(<<"c">>), Some(Hex(<<"#", "F", "F", "5", "5", "5", "5">>)), None, None))
  /\ Unwrap(serialized) = <<"<", "r", "e", "d", ">", "c", "<", "/", "r", "e", "d", ">">>

(* ---- parser: the shape of what it builds ---- *)
\* A node with only the plain-text payload set and no children, whose hover
\* text, if any, is the result of a parse call
RECURSIVE IsTextNode(_), IsParseResult(_)
IsTextNode(comp) ==
  /\ comp.type = "Object"
  /\ comp.value.text # None
  /\ comp.value.translate = None
  /\ comp.value.extra = None
  /\ \/ comp.value.hover_event = None
     \/ IsParseResult(Unwrap(comp.value.hover_event).value)

\* What a parse call returns: one such node, or a Sequence of them
IsParseResult(comp) ==
  \/ IsTextNode(comp)
  \/ /\ comp.type = "Array"
     /\ \A i \in DOMAIN comp.value : IsTextNode(comp.value[i])

\* C34: every component the parser produces is a node with only the
\* plain-text payload set and no children; a Sequence appears only as the
\* top-level result of a parse call (the outer call or a nested hover parse)
\* and is never placed inside a node's children.
C34_PartsAreTextNodes ==
  /\ \A i \in DOMAIN parser.component_parts : IsTextNode(parser.component_parts[i])
  /\ ReturnedOk => IsParseResult(Unwrap(Unwrap(parsed).value))

C34_HoverTextIsSequence ==
  /\ parser.input = <<"<", "h", "o", "v", "e", "r", " ", "s", "h", "o", "w", "_", "t", "e", "x", "t", " ", "'", "a", "<", "r", "e", "d", ">", "b", "'", ">", "<", "f", "o", "o", ">", "x">>
  /\ ReturnedOk
  /\ Unwrap(Unwrap(parsed).value).type = "Array"
  /\ Unwrap(Unwrap(Unwrap(parsed).value).value[1].value.hover_event).value.type = "Array"

(* ---- parser: copy-on-write frames ---- *)
DecorationTagNames ==
  {<<"b", "o", "l", "d">>, <<"b">>, <<"i", "t", "a", "l", "i", "c">>, <<"i">>, <<"e", "m">>, <<"u", "n", "d", "e", "r", "l", "i", "n", "e", "d">>, <<"u">>, <<"s", "t", "r", "i", "k", "e", "t", "h", "r", "o", "u", "g", "h">>, <<"s", "t">>,
   <<"o", "b", "f", "u", "s", "c", "a", "t", "e", "d">>, <<"o", "b", "f">>}

\* The decoration a tag name sets
DecorationOf(n) ==
  CASE n \in {<<"b", "o", "l", "d">>, <<"b">>} -> "bold"
    [] n \in {<<"i", "t", "a", "l", "i", "c">>, <<"i">>, <<"e", "m">>} -> "italic"
    [] n \in {<<"u", "n", "d", "e", "r", "l", "i", "n", "e", "d">>, <<"u">>} -> "underlined"
    [] n \in {<<"s", "t", "r", "i", "k", "e", "t", "h", "r", "o", "u", "g", "h">>, <<"s", "t">>} -> "strikethrough"
    [] n \in {<<"o", "b", "f", "u", "s", "c", "a", "t", "e", "d">>, <<"o", "b", "f">>} -> "obfuscated"

\* One frame more: the top frame with one field set; the frames below and
\* the parts as they were
PushesOne(p, q, field, value) ==
  /\ q.error = NoError
  /\ q.style_stack = Pushed(p.style_stack, field, value)
  /\ q.component_parts = p.component_parts

\* C35: each opening decoration tag, each bare colour tag and each insert or
\* insertion tag with an argument pushes exactly one new frame that is a copy
\* of the previous top frame with only that one attribute changed; the frames
\* already on the stack and the components already emitted are unchanged.
C35_CopyOnWritePush ==
  /\ \A n \in DecorationTagNames, args \in StackingArgLists :
       (Parsing /\ At(parser, OpeningTag(n, args)))
       => PushesOne(parser, parse_iteration(parser), DecorationOf(n), Some(TRUE))
  /\ \A n \in ColourNames, args \in StackingArgLists :
       (Parsing /\ At(parser, OpeningTag(n, args)))
       => PushesOne(parser, parse_iteration(parser), "color", Some(Named(VariantOf(n))))
  /\ \A n \in {<<"i", "n", "s", "e", "r", "t">>, <<"i", "n", "s", "e", "r", "t", "i", "o", "n">>}, args \in StackingArgLists \ {<<>>} :
       (Parsing /\ At(parser, OpeningTag(n, args)))
       => PushesOne(parser, parse_iteration(parser), "insertion", Some(args[1]))
  /\ \A a \in QuotedArguments :
       (Parsing /\ At(parser, <<"<", "i", "n", "s", "e", "r", "t", " ">> \o a.raw \o <<">">>))
       => PushesOne(parser, parse_iteration(parser), "insertion", Some(a.value))

(* ---- parser: the hover tag ---- *)
\* Second arguments of a hover tag as they are written, each with the value
\* it stands for
HoverArguments ==
  {[raw |-> <<"'", "<", "r", "e", "d", ">", "t", "'">>, value |-> <<"<", "r", "e", "d", ">", "t">>],
   [raw |-> <<"'", "<", "r", "e", "d", ">", "t", "i", "p", "'">>, value |-> <<"<", "r", "e", "d", ">", "t", "i", "p">>],
   [raw |-> <<"\"", "a", "&", "b", "\"">>, value |-> <<"a", "&", "b">>],
   [raw |-> <<"'", "\\", "'", "<", "b", ">", "'">>, value |-> <<"'", "<", "b", ">">>],
   [raw |-> <<"'", "<", "/", "b", ">", "'">>, value |-> <<"<", "/", "b", ">">>],
   [raw |-> <<"'", "<", "r", "e", "d", "'">>, value |-> <<"<", "r", "e", "d">>],
   [raw |-> <<"'", "t", "'">>, value |-> <<"t">>],
   [raw |-> <<"'", "a", "<", "r", "e", "d", ">", "b", "'">>, value |-> <<"a", "<", "r", "e", "d", ">", "b">>],
   [raw |-> <<"a">>, value |-> <<"a">>]}

HoverTag(a) == <<"<", "h", "o", "v", "e", "r", " ", "s", "h", "o", "w", "_", "t", "e", "x", "t", " ">> \o a.raw \o <<">">>

ShowText(comp) == Some([action |-> "ShowText", value |-> comp])

\* The hover tag is consumed and one frame wrapping the nested result is
\* pushed, or the nested error is raised and nothing is pushed
HandlesHover(p, q, tag, nested) ==
  IF nested.error = NoError
  THEN /\ PushesOne(p, q, "hover_event", ShowText(Unwrap(nested.value)))
       /\ q.position = p.position + Len(tag)
  ELSE /\ q.error = nested.error
       /\ q.style_stack = p.style_stack
       /\ q.component_parts = p.component_parts

\* C36: for hover with arg[0] = show_text and a second argument, the nested
\* markup is parsed by a fresh parser that starts from a single default frame,
\* uses the same configuration, and does not touch the outer parser's
\* position, stack or output; on success exactly one frame whose hover action
\* wraps the nested result is pushed, and on a nested syntax error no frame is
\* pushed and the outer parse fails with that error.
C36_HoverNestedParse ==
  \A a \in HoverArguments :
    (Parsing /\ At(parser, HoverTag(a)))
    => HandlesHover(parser, parse_iteration(parser), HoverTag(a),
                    parse(a.value, parser.config))

C36_HoverUnderBold ==
  /\ parser.input = <<"<", "b", "o", "l", "d", ">", "<", "h", "o", "v", "e", "r", " ", "s", "h", "o", "w", "_", "t", "e", "x", "t", " ", "'", "<", "r", "e", "d", ">", "t", "'", ">", "x">>
  /\ After(parser, <<"<", "h", "o", "v", "e", "r", " ", "s", "h", "o", "w", "_", "t", "e", "x", "t", " ", "'", "<", "r", "e", "d", ">", "t", "'", ">">>)
  /\ Len(parser.style_stack) = 3
  /\ current_style(parser).bold = Some(TRUE)
  /\ current_style(parser).hover_event
       = ShowText(AtStyle(Component_text(<<"t">>),
                          [DefaultStyle EXCEPT !.color = Some(Named("Red"))]))

(* ---- parser: multi-byte characters ---- *)
\* C37: for every input string, the inputs holding multi-byte characters in
\* literal text, tag names or arguments included, the scan position stays
\* within 0..=len and on a character boundary in every reachable parser state,
\* and parse returns a component or an error and never aborts abnormally.
C37_PositionOnBoundary ==
  /\ parser.position \in 0..Len(parser.input)
  /\ is_char_boundary(parser.input, parser.position)
  /\ parser.error # Panic
  /\ Returned => Unwrap(parsed).error # Panic

(* ---- parser: a stacking tag opened and closed ---- *)
\* The opening tag has pushed one frame, the closing tag has popped it, and
\* nothing has failed
OpensAndCloses(p, open, close) ==
  /\ p.error = NoError
  /\ p.position = Len(open) => Len(p.style_stack) = 2
  /\ p.position = Len(open) + 1 + Len(close) => Len(p.style_stack) = 1

\* C38: for every explicit stacking tag name T and every lexically valid
\* argument list, parsing <T args>x</T> from the initial state succeeds: the
\* opening tag pushes exactly one frame and the closing tag pops it, whatever
\* the argument values are.
C38_StackingTagOpensAndCloses ==
  \A n \in ListedCloseNames, args \in StackingArgLists :
    parser.input = OpeningTag(n, args) \o <<"x">> \o ClosingTag(n)
    => /\ OpensAndCloses(parser, OpeningTag(n, args), ClosingTag(n))
       /\ Returned => ReturnedOk

(* ---- serializer and parser: the output is parsed again ---- *)
\* Every node of the tree carries only text, colour (Named, or Hex of shape
\* #RRGGBB), decorations and children
RECURSIVE IsStyleTree(_)
IsStyleNode(obj) ==
  /\ obj.translate = None
  /\ \A f \in StyleFields \ SerializedFields : obj[f] = None
  /\ \/ obj.color = None
     \/ Unwrap(obj.color).kind = "Named"
     \/ IsHexColor(Unwrap(obj.color).value)
  /\ \/ obj.extra = None
     \/ \A i \in DOMAIN Unwrap(obj.extra) : IsStyleTree(Unwrap(obj.extra)[i])

IsStyleTree(comp) ==
  CASE comp.type = "String" -> TRUE
    [] comp.type = "Array" -> \A i \in DOMAIN comp.value : IsStyleTree(comp.value[i])
    [] comp.type = "Object" -> IsStyleNode(comp.value)

\* C39: for every tree whose nodes carry only text, colour (Named, or Hex of
\* shape #RRGGBB) and decorations, the string the serializer produces is
\* accepted by the parser: parsing it returns a component and not an error.
C39_OutputParses ==
  (Serialized /\ IsStyleTree(component))
  => parse(Unwrap(serialized), DefaultConfig).error = NoError

====
